---------------------------- MODULE Spec2Model ----------------------------
(***************************************************************************)
(* Model of the streaming agent loop of necocode                           *)
(* (core/src/api/anthropic.rs): the tool-call collector, the SSE decoder   *)
(* and the agent loop driver.                                              *)
(*                                                                         *)
(* Rust Strings are sequences of one-character TLA+ strings.  JSON text is *)
(* modelled at the level of lexical tokens: punctuation, number literals,  *)
(* the literal null ("n") and string literals (StrLits: "p" is "path").   *)
(* The content of a JSON string is a sequence of raw characters, a word    *)
(* such as path counting as one character.                                 *)
(***************************************************************************)
EXTENDS Integers, Sequences, FiniteSets, TLC

VARIABLES
    available_models, \* recommend_model: &[ModelInfo]
    preference,       \* recommend_model: Option<ModelPreference>
    recommended,      \* what recommend_model returned
    calls,      \* ToolCallCollector.calls : Vec<PendingToolCall>
    taken,      \* the Vec<ToolCall> take_completed just returned
    drained,    \* TRUE right after take_completed, FALSE after an event
    gpre,       \* history: the slots as they were when that drain began
    gstart,     \* history: index -> the tool-use block last started there
    gtext,      \* history: index -> the fragments sent there since that start
    gstop,      \* history: index -> a ContentBlockStop came since that start
    gphase,     \* history: shape of the events since the last drain
    lastStart,  \* history: index of the latest tool-use start (-1: none)
    lastStop,   \* history: index of the latest ContentBlockStop (-1: none)
    ndelta,     \* history: input_json_delta events since the last drain
    pc,           \* run_agent_loop_stream: where the loop stands
    messages,     \* the conversation history (&mut Vec<Value>)
    sent,         \* the CoreEvents sent on event_sender, in order
    current_text, \* the text accumulated in this round
    tool_calls,   \* the completed calls of this round not yet executed
    result,       \* what run_agent_loop_stream returned ("none": running)
    requests,     \* history: calls of create_message_stream so far
    nitems,       \* history: events the response streams yielded so far
    base,         \* history: length of the history when the round began
    rcalls,       \* history: the calls this round's take_completed returned
    rtext,        \* history: the text deltas of this response, concatenated
    ropen,        \* history: indices of tool-use blocks started, not stopped
    rdone,        \* history: a tool-use block of this response was stopped
    errPhase,     \* history: 0, 1 after an Error event, 2 after a later event
    lastRun,      \* history: the tool execution just made (some: FALSE if none)
    buffer,       \* parse_sse_stream: the text received, not yet split in lines
    out,          \* the items the decoder's stream has yielded, in order
    ended,        \* the byte stream returned None: the decoder's stream ended
    dinput,       \* history: the text of the chunks appended to buffer so far
    nchunks,      \* history: items the byte stream yielded so far
    hist0,        \* history: Session.messages when the last command was read
    sent0,        \* history: events sent before the last command was read
    lastInput,    \* history: the last line read_line returned
    lastCmd,      \* history: the command parsed from it
    ncmds         \* history: lines read so far

collectorVars ==
    <<calls, taken, drained, gpre, gstart, gtext, gstop, gphase,
      lastStart, lastStop, ndelta>>

collectorHistory ==
    <<taken, drained, gpre, gstart, gtext, gstop, gphase,
      lastStart, lastStop, ndelta>>

driverHistory == <<base, rcalls, rtext, ropen, rdone, errPhase, lastRun>>

driverVars ==
    <<pc, messages, sent, current_text, tool_calls, result, requests, nitems,
      driverHistory>>

decoderVars == <<buffer, out, ended, dinput, nchunks>>

sessionVars == <<hist0, sent0, lastInput, lastCmd, ncmds>>

modelsVars == <<available_models, preference, recommended>>

vars == <<collectorVars, driverVars, decoderVars, sessionVars, modelsVars>>

-----------------------------------------------------------------------------
(* Bounds of the model                                                     *)

\* largest content-block index the scripted events use
MaxIndex == 1
\* most input_json_delta events given to the collector between two drains
MaxDeltas == 3
\* most requests one run of the agent loop issues
MaxRequests == 2
\* most events the response streams of one run yield before their last item
MaxItems == 5
\* items (chunks and errors) the byte stream of a response yields
MaxChunks == 3
\* lines the input reader returns in a session
MaxCommands == 2
\* events the response streams of a whole session yield
MaxSessionItems == 3
\* characters of an input given to parse_input
MaxInputLen == 4
\* models in the list given to recommend_model
MaxModels == 3

-----------------------------------------------------------------------------
(* serde_json::Value                                                       *)

\* string-literal tokens and the characters each denotes
StrLits ==
    << <<"p", <<"path">>>>, <<"c", <<"cmd">>>>, <<"s", <<"x">>>>,
       <<"T", <<"type">>>>, <<"I", <<"index">>>>,
       <<"ms", <<"message_stop">>>>, <<"mb", <<"message_start">>>>,
       <<"md", <<"message_delta">>>>, <<"cs", <<"content_block_stop">>>>,
       <<"cd", <<"content_block_delta">>>>,
       <<"cb", <<"content_block_start">>>>, <<"er", <<"error">>>>,
       <<"pg", <<"ping">>>>, <<"CB", <<"content_block">>>>,
       <<"DL", <<"delta">>>>, <<"tu", <<"tool_use">>>>, <<"tx", <<"text">>>>,
       <<"td", <<"text_delta">>>>, <<"jd", <<"input_json_delta">>>>,
       <<"PJ", <<"partial_json">>>>, <<"ID", <<"id">>>>, <<"NM", <<"name">>>>,
       <<"IN", <<"input">>>>, <<"MG", <<"message">>>>, <<"A", <<"A">>>>,
       <<"rd", <<"read">>>>, <<"ov", <<"overloaded">>>>, <<"t", <<"t">>>>,
       <<"e", <<>>>>, <<"ob", <<"{", "}">>>> >>

StrTok == { StrLits[k][1] : k \in 1..Len(StrLits) }

\* number-literal tokens
NumTok == {"0", "1", "2", "-1", "1.5", "4294967296", "4294967297"}

\* the characters a string literal denotes
Content(tok) ==
    StrLits[CHOOSE k \in 1..Len(StrLits) : StrLits[k][1] = tok][2]

\* the literal that denotes a content (of the model's alphabet)
Quote(content) ==
    StrLits[CHOOSE k \in 1..Len(StrLits) : StrLits[k][2] = content][1]

JNull == <<"null">>
JNum(digits) == <<"num", <<digits>>>>
JStr(s) == <<"str", s>>
JObj(members) == <<"obj", members>>

IsString(v) == v[1] = "str"
IsObject(v) == v[1] = "obj"
IsNumber(v) == v[1] = "num"

\* Map::insert: a later member replaces an earlier one with the same key
MapInsert(members, key, value) ==
    IF \E k \in 1..Len(members) : members[k][1] = key
    THEN [k \in 1..Len(members) |->
            IF members[k][1] = key THEN <<key, value>> ELSE members[k]]
    ELSE Append(members, <<key, value>>)

\* serde_json::Map::get
MapGet(members, key) ==
    IF \E k \in 1..Len(members) : members[k][1] = key
    THEN LET k == CHOOSE k \in 1..Len(members) : members[k][1] = key
         IN [some |-> TRUE, value |-> members[k][2]]
    ELSE [some |-> FALSE, value |-> JNull]

\* Value::to_string: the compact serialisation
RECURSIVE ValueToString(_)
RECURSIVE MembersToString(_, _)
ValueToString(v) ==
    CASE v[1] = "null" -> <<"n">>
      [] v[1] = "num" -> v[2]
      [] v[1] = "str" -> <<Quote(v[2])>>
      [] v[1] = "obj" -> <<"{">> \o MembersToString(v[2], 1) \o <<"}">>

MembersToString(members, k) ==
    IF k > Len(members) THEN <<>>
    ELSE (IF k > 1 THEN <<",">> ELSE <<>>)
         \o <<Quote(members[k][1]), ":">> \o ValueToString(members[k][2])
         \o MembersToString(members, k + 1)

ParseFail == <<FALSE, JNull, 0>>

\* one JSON value starting at token i of s: <<ok, value, next position>>
RECURSIVE ParseValue(_, _)
\* the members of an object from token i on, up to and including its "}"
RECURSIVE ParseMembers(_, _, _)
ParseValue(s, i) ==
    IF i > Len(s) THEN ParseFail
    ELSE IF s[i] \in NumTok THEN <<TRUE, JNum(s[i]), i + 1>>
    ELSE IF s[i] = "n" THEN <<TRUE, JNull, i + 1>>
    ELSE IF s[i] \in StrTok THEN <<TRUE, JStr(Content(s[i])), i + 1>>
    ELSE IF s[i] = "{" THEN
        IF i + 1 <= Len(s) /\ s[i + 1] = "}"
        THEN <<TRUE, JObj(<<>>), i + 2>>
        ELSE ParseMembers(s, i + 1, <<>>)
    ELSE ParseFail

ParseMembers(s, i, acc) ==
    IF i + 1 <= Len(s) /\ s[i] \in StrTok /\ s[i + 1] = ":"
    THEN LET r == ParseValue(s, i + 2) IN
         IF ~r[1] \/ r[3] > Len(s) THEN ParseFail
         ELSE LET members == MapInsert(acc, Content(s[i]), r[2]) IN
              IF s[r[3]] = "}" THEN <<TRUE, JObj(members), r[3] + 1>>
              ELSE IF s[r[3]] = "," THEN ParseMembers(s, r[3] + 1, members)
              ELSE ParseFail
    ELSE ParseFail

\* serde_json::from_str::<Value>: the whole text must be one value
FromStr(s) ==
    LET r == ParseValue(s, 1) IN
    IF r[1] /\ r[3] = Len(s) + 1
    THEN [ok |-> TRUE, value |-> r[2]]
    ELSE [ok |-> FALSE, value |-> JNull]

\* Result<Value, _>::unwrap_or_default(): Value::default() is Value::Null
UnwrapOrDefault(r) == IF r.ok THEN r.value ELSE JNull

-----------------------------------------------------------------------------
(* ApiError                                                                *)

NetworkError == [kind |-> "NetworkError", text |-> <<"connect">>]
HttpError == [kind |-> "HttpError", text |-> <<"500">>]
ParseError(text) == [kind |-> "ParseError", text |-> text]
StreamError == [kind |-> "StreamError", text |-> <<"Failed to read stream">>]
ApiErr(text) == [kind |-> "Api", text |-> text]

\* Result<(), ApiError> of the loop: Ok(()), and "none" while it runs
ResultOk == [kind |-> "Ok", text |-> <<>>]
ResultNone == [kind |-> "none", text |-> <<>>]
IsErr(r) == r.kind \notin {"Ok", "none"}

NoRun == [some |-> FALSE, id |-> "", name |-> "", ok |-> FALSE, text |-> <<>>]

\* the Display of ApiError (thiserror #[error(...)])
ErrorToString(err) ==
    CASE err.kind = "NetworkError" -> <<"Network error: ">> \o err.text
      [] err.kind = "HttpError" -> <<"HTTP error ">> \o err.text
      [] err.kind = "ParseError" -> <<"Parse error: ">> \o err.text
      [] err.kind = "StreamError" -> <<"Stream error: ">> \o err.text
      [] OTHER -> <<"API error: ">> \o err.text

-----------------------------------------------------------------------------
(* StreamEvent, ContentBlock, Delta                                        *)

MessageStart == [type |-> "MessageStart"]
MessageDelta == [type |-> "MessageDelta"]
MessageStop == [type |-> "MessageStop"]
ToolUseStart(i, id, name, input) ==
    [type |-> "ContentBlockStart", index |-> i,
     content_block |->
        [type |-> "tool_use", id |-> id, name |-> name, input |-> input]]
TextStart(i) ==
    [type |-> "ContentBlockStart", index |-> i,
     content_block |-> [type |-> "text", text |-> <<>>]]
TextDelta(i, text) ==
    [type |-> "ContentBlockDelta", index |-> i,
     delta |-> [type |-> "text_delta", text |-> text]]
InputJsonDelta(i, partial) ==
    [type |-> "ContentBlockDelta", index |-> i,
     delta |-> [type |-> "input_json_delta", partial_json |-> partial]]
ContentBlockStop(i) == [type |-> "ContentBlockStop", index |-> i]
ErrorEvent(e) == [type |-> "Error", error |-> e]

IsToolUseStart(e) ==
    e.type = "ContentBlockStart" /\ e.content_block.type = "tool_use"
IsTextDelta(e) ==
    e.type = "ContentBlockDelta" /\ e.delta.type = "text_delta"
IsInputJsonDelta(e) ==
    e.type = "ContentBlockDelta" /\ e.delta.type = "input_json_delta"

-----------------------------------------------------------------------------
(* ToolCallCollector                                                       *)

PlaceholderCall ==
    [id |-> "", name |-> "", input_buffer |-> <<>>, completed |-> FALSE]

\* the initial argument buffer process_event derives from the block's input
InitialBuffer(input) ==
    IF IsString(input) THEN input[2]
    ELSE IF IsObject(input) /\ Len(input[2]) > 0 THEN ValueToString(input)
    ELSE <<>>

\* while self.calls.len() <= index { push(placeholder) }
PadTo(cs, index) ==
    IF Len(cs) > index THEN cs
    ELSE cs \o [k \in 1..(index + 1 - Len(cs)) |-> PlaceholderCall]

\* mutation of PushStr: the fragment goes in front of the buffer
PushStrFront(string, partial) == partial \o string

\* call.input_buffer.push_str(partial_json)
PushStr(string, partial) == string \o partial

\* mutation of DeltaSlot: every delta lands in the first slot
DeltaSlotFirst(e) == 1

\* self.calls.get_mut(*index as usize) of the delta arm, as a 1-based position
DeltaSlot(e) == e.index + 1

\* ToolCallCollector::process_event; slot i of the Vec is cs[i + 1]
ProcessEvent(cs, e) ==
    IF IsToolUseStart(e) THEN
        [PadTo(cs, e.index) EXCEPT ![e.index + 1] =
            [id |-> e.content_block.id,
             name |-> e.content_block.name,
             input_buffer |-> InitialBuffer(e.content_block.input),
             completed |-> FALSE]]
    ELSE IF e.type = "ContentBlockDelta" THEN
        IF DeltaSlot(e) > Len(cs) THEN cs
        ELSE IF ~IsInputJsonDelta(e) THEN cs
        ELSE [cs EXCEPT ![DeltaSlot(e)].input_buffer =
                            PushStr(@, e.delta.partial_json)]
    ELSE IF e.type = "ContentBlockStop" THEN
        IF e.index + 1 > Len(cs) THEN cs
        ELSE [cs EXCEPT ![e.index + 1].completed = TRUE]
    ELSE cs

\* ToolCallCollector::has_completed_calls
HasCompletedCalls(cs) == \E k \in 1..Len(cs) : cs[k].completed

\* ToolCallCollector::is_active
IsActive(cs) == Len(cs) > 0

\* the ToolCall built from one completed slot
ToToolCall(c) ==
    [id |-> c.id, name |-> c.name,
     input |-> UnwrapOrDefault(FromStr(c.input_buffer))]

IsCompleted(c) == c.completed

\* mutation of TakeCompleted: every slot is returned, completed or not
TakeEverySlot(cs) == [k \in 1..Len(cs) |-> ToToolCall(cs[k])]

\* ToolCallCollector::take_completed: the value returned (calls is cleared)
TakeCompleted(cs) ==
    LET done == SelectSeq(cs, IsCompleted) IN
    [k \in 1..Len(done) |-> ToToolCall(done[k])]

-----------------------------------------------------------------------------
(* The collector on its own: any event sequence, drained at any time       *)

Indices == 0..MaxIndex

NoBlock == [id |-> "", name |-> "", input |-> JNull, started |-> FALSE]

\* tool-use blocks a response may open: input "" as in the unit tests, and
\* an input that already is a non-empty object
ToolUses ==
    { [id |-> "A", name |-> "read", input |-> JStr(<<>>)],
      [id |-> "B", name |-> "bash",
       input |-> JObj(<< <<(<<"cmd">>), JStr(<<"x">>)>> >>)] }

\* partial_json fragments
Fragments == { <<"{">>, <<"}">>, <<"p", ":", "s">> }

CollectorEvents ==
    { ToolUseStart(i, t.id, t.name, t.input) : i \in Indices, t \in ToolUses }
    \cup { InputJsonDelta(i, f) : i \in Indices, f \in Fragments }
    \cup { ContentBlockStop(i) : i \in Indices }
    \cup { TextDelta(0, <<"t">>), TextStart(0), MessageStop }

FreshStart == [i \in Indices |-> NoBlock]
FreshText == [i \in Indices |-> <<>>]
FreshStop == [i \in Indices |-> FALSE]

\* the shape of the events since the last drain: "fresh" (none), "open" (one
\* tool-use start, then only its input_json_delta events), "closed" (then
\* its ContentBlockStop), "off" (anything else)
NextPhase(phase, open, e) ==
    IF phase = "fresh" /\ IsToolUseStart(e) THEN "open"
    ELSE IF phase = "open" /\ IsInputJsonDelta(e) /\ e.index = open THEN "open"
    ELSE IF phase = "open" /\ e.type = "ContentBlockStop" /\ e.index = open
    THEN "closed"
    ELSE "off"

\* ToolCallCollector::new()
CollectorNew ==
    /\ calls = <<>>
    /\ taken = <<>>
    /\ drained = FALSE
    /\ gpre = <<>>
    /\ gstart = FreshStart
    /\ gtext = FreshText
    /\ gstop = FreshStop
    /\ gphase = "fresh"
    /\ lastStart = -1
    /\ lastStop = -1
    /\ ndelta = 0

\* no agent loop is running
DriverIdle ==
    /\ pc = "idle"
    /\ messages = <<>>
    /\ sent = <<>>
    /\ current_text = <<>>
    /\ tool_calls = <<>>
    /\ result = ResultNone
    /\ requests = 0
    /\ nitems = 0
    /\ base = 0
    /\ rcalls = <<>>
    /\ rtext = <<>>
    /\ ropen = {}
    /\ rdone = FALSE
    /\ errPhase = 0
    /\ lastRun = NoRun

\* no response body is being decoded
DecoderIdle ==
    /\ buffer = <<>>
    /\ out = <<>>
    /\ ended = FALSE
    /\ dinput = <<>>
    /\ nchunks = 0

\* UserCommand
Quit == [kind |-> "Quit", msg |-> <<>>]
Clear == [kind |-> "Clear", msg |-> <<>>]
MessageCmd(msg) == [kind |-> "Message", msg |-> msg]
NoCommand == [kind |-> "none", msg |-> <<>>]

\* no session is reading input
SessionIdle ==
    /\ hist0 = <<>>
    /\ sent0 = 0
    /\ lastInput = <<>>
    /\ lastCmd = NoCommand
    /\ ncmds = 0

\* Option<String>
Some(id) == [kind |-> "Some", id |-> id]
None == [kind |-> "None", id |-> ""]
\* recommend_model not called
NotCalled == [kind |-> "NotCalled", id |-> ""]

\* Option<ModelPreference> is None
NoPreference == "None"

\* recommend_model is not in use
ModelsIdle ==
    /\ available_models = <<>>
    /\ preference = NoPreference
    /\ recommended = NotCalled

CollectorInit ==
    CollectorNew /\ DriverIdle /\ DecoderIdle /\ SessionIdle /\ ModelsIdle

\* collector.process_event(e)
Feed(e) ==
    LET bstart == IF drained THEN FreshStart ELSE gstart
        btext == IF drained THEN FreshText ELSE gtext
        bstop == IF drained THEN FreshStop ELSE gstop
        bphase == IF drained THEN "fresh" ELSE gphase
        bls == IF drained THEN -1 ELSE lastStart
        blp == IF drained THEN -1 ELSE lastStop
        bn == IF drained THEN 0 ELSE ndelta
    IN
    /\ IsInputJsonDelta(e) => bn < MaxDeltas
    /\ calls' = ProcessEvent(calls, e)
    /\ drained' = FALSE
    /\ ndelta' = IF IsInputJsonDelta(e) THEN bn + 1 ELSE bn
    /\ gphase' = NextPhase(bphase, bls, e)
    /\ gstart' = IF IsToolUseStart(e)
                 THEN [bstart EXCEPT ![e.index] =
                        [id |-> e.content_block.id,
                         name |-> e.content_block.name,
                         input |-> e.content_block.input,
                         started |-> TRUE]]
                 ELSE bstart
    /\ gtext' = IF IsToolUseStart(e) THEN [btext EXCEPT ![e.index] = <<>>]
                ELSE IF IsInputJsonDelta(e) /\ bstart[e.index].started
                THEN [btext EXCEPT ![e.index] = @ \o e.delta.partial_json]
                ELSE btext
    /\ gstop' = IF IsToolUseStart(e) THEN [bstop EXCEPT ![e.index] = FALSE]
                ELSE IF e.type = "ContentBlockStop"
                THEN [bstop EXCEPT ![e.index] = TRUE]
                ELSE bstop
    /\ lastStart' = IF IsToolUseStart(e) THEN e.index ELSE bls
    /\ lastStop' = IF e.type = "ContentBlockStop" THEN e.index ELSE blp
    /\ taken' = <<>>
    /\ gpre' = <<>>
    /\ UNCHANGED <<driverVars, decoderVars, modelsVars, sessionVars>>

CollectorFeed == \E e \in CollectorEvents : Feed(e)

\* collector.take_completed()
CollectorTake ==
    /\ taken' = TakeCompleted(calls)
    /\ gpre' = calls
    /\ calls' = <<>>
    /\ drained' = TRUE
    /\ gstart' = IF drained THEN FreshStart ELSE gstart
    /\ gtext' = IF drained THEN FreshText ELSE gtext
    /\ gstop' = IF drained THEN FreshStop ELSE gstop
    /\ gphase' = IF drained THEN "fresh" ELSE gphase
    /\ lastStart' = IF drained THEN -1 ELSE lastStart
    /\ lastStop' = IF drained THEN -1 ELSE lastStop
    /\ ndelta' = IF drained THEN 0 ELSE ndelta
    /\ UNCHANGED <<driverVars, decoderVars, modelsVars, sessionVars>>

CollectorNext == CollectorFeed \/ CollectorTake

SpecCollector == CollectorInit /\ [][CollectorNext]_vars

-----------------------------------------------------------------------------
(* Claims about the collector                                              *)

\* the text slot i must hold: its initial buffer, then its own fragments
OwnText(i) == InitialBuffer(gstart[i].input) \o gtext[i]

\* C1 as stated: after Start(i), N input_json_delta at i and Stop(i) on a
\* fresh collector, take_completed returns exactly one call, with the id and
\* name of the start block, whose input is the JSON object that the
\* concatenation of the N fragments denotes.
C1_FragmentsAlone ==
    (drained /\ gphase = "closed") =>
        LET r == FromStr(gtext[lastStart]) IN
        (r.ok /\ IsObject(r.value)) =>
            /\ Len(taken) = 1
            /\ taken[1].id = gstart[lastStart].id
            /\ taken[1].name = gstart[lastStart].name
            /\ taken[1].input = r.value

\* C1 amended: after a collector without slots processes a tool-use start at
\* index i, N input_json_delta events for i and the stop of i,
\* take_completed returns exactly one call, with the id and name of the
\* start block, whose input is the JSON value denoted by the start block's
\* initial buffer followed by the N fragments in arrival order, whenever
\* that text is valid JSON.
C1_Completeness ==
    (drained /\ gphase = "closed") =>
        LET r == FromStr(OwnText(lastStart)) IN
        /\ Len(taken) = 1
        /\ taken[1].id = gstart[lastStart].id
        /\ taken[1].name = gstart[lastStart].name
        /\ r.ok => taken[1].input = r.value

\* C1 witness: index 1, three fragments "{" "p:s" "}" after an empty initial
\* buffer, drained to the object {"path":"x"}
C1_Witness ==
    /\ drained /\ gphase = "closed" /\ lastStart = 1 /\ ndelta = 3
    /\ InitialBuffer(gstart[1].input) = <<>>
    /\ Len(taken) = 1
    /\ taken[1].input = JObj(<< <<(<<"path">>), JStr(<<"x">>)>> >>)

\* the calls expected from the blocks started and stopped, by ascending index
RECURSIVE ExpectedFrom(_)
ExpectedFrom(i) ==
    IF i > MaxIndex THEN <<>>
    ELSE (IF gstart[i].started /\ gstop[i]
          THEN << [id |-> gstart[i].id, name |-> gstart[i].name,
                   input |-> UnwrapOrDefault(FromStr(OwnText(i)))] >>
          ELSE <<>>) \o ExpectedFrom(i + 1)

\* C2: while tool-use blocks are open at distinct indices, under every
\* interleaving of their deltas each slot's buffer holds its initial buffer
\* and then exactly the fragments addressed to its own index, in order; and
\* take_completed returns the completed calls by ascending index whatever
\* the order of the starts and stops.
C2_Independence ==
    /\ ~drained =>
          \A i \in Indices :
              gstart[i].started =>
                  /\ i + 1 <= Len(calls)
                  /\ calls[i + 1].input_buffer = OwnText(i)
    /\ (drained /\ \A i \in Indices : gstop[i] => gstart[i].started) =>
          taken = ExpectedFrom(0)

\* C2 witness: two different blocks, index 1 started and stopped before
\* index 0, fragments sent to both, drained as index 0 then index 1
C2_Witness ==
    /\ drained /\ Len(taken) = 2
    /\ lastStart = 0 /\ lastStop = 0
    /\ gtext[0] # <<>> /\ gtext[1] # <<>> /\ gtext[0] # gtext[1]
    /\ taken[1].id = gstart[0].id /\ taken[2].id = gstart[1].id
    /\ taken[1].id # taken[2].id

\* C6 as stated: a completed slot whose buffer is not valid JSON (the empty
\* buffer included) is returned with an empty JSON object as input.
C6_EmptyObjectOnParseFailure ==
    drained =>
        LET done == SelectSeq(gpre, IsCompleted) IN
        \A k \in 1..Len(done) :
            ~FromStr(done[k].input_buffer).ok =>
                (k <= Len(taken) /\ taken[k].input = JObj(<<>>))

\* C16: take_completed called when no slot is completed returns an empty
\* list and leaves has_completed_calls false; called again immediately
\* after a drain it returns an empty list.
C16_IdempotentDrain ==
    [][ /\ (drained' /\ ~HasCompletedCalls(calls)) =>
              (taken' = <<>> /\ ~HasCompletedCalls(calls'))
        /\ (drained /\ drained') =>
              (taken' = <<>> /\ ~HasCompletedCalls(calls')) ]_vars

\* C16 witness: a drain of slots none of which was completed
C16_Witness ==
    /\ drained /\ taken = <<>>
    /\ gpre # <<>> /\ gpre[Len(gpre)].id # "" /\ gpre[Len(gpre)].input_buffer # <<>>

\* C23 as stated: no call with an empty id and name is ever returned by
\* take_completed.
C23_NoPlaceholderReturned ==
    \A k \in 1..Len(taken) : taken[k].id # "" /\ taken[k].name # ""

\* C23 for the slots a tool-use ContentBlockStart wrote (what the code does
\* keep): a returned call with an id is the block last started at an index,
\* stopped since
C23_NamedCallsWereStarted ==
    \A k \in 1..Len(taken) :
        taken[k].id # "" =>
            \E i \in Indices :
                /\ gstart[i].started /\ gstop[i]
                /\ gstart[i].id = taken[k].id
                /\ gstart[i].name = taken[k].name

IsPrefix(a, b) == Len(a) <= Len(b) /\ SubSeq(b, 1, Len(a)) = a

\* C28 as stated: within one response the id and name of a slot written by
\* a tool-use ContentBlockStart never change, completed never goes back
\* from true to false, the argument buffer only changes by appending and
\* no longer changes once completed is true.
C28_SlotsAreStable ==
    [][ \A k \in 1..Len(calls) :
          (k <= Len(calls') /\ calls[k].id # "") =>
              /\ calls'[k].id = calls[k].id
              /\ calls'[k].name = calls[k].name
              /\ calls[k].completed => calls'[k].completed
              /\ IsPrefix(calls[k].input_buffer, calls'[k].input_buffer)
              /\ calls[k].completed =>
                    calls'[k].input_buffer = calls[k].input_buffer ]_vars

\* C28, what one event does to a slot in the code: nothing, or it appends to
\* the buffer (completed or not), or it sets completed, or it writes the
\* slot anew from a tool-use ContentBlockStart
C28_SlotSteps ==
    [][ \A k \in 1..Len(calls) :
          k <= Len(calls') =>
              \/ calls'[k] = calls[k]
              \/ /\ calls'[k] = [calls[k] EXCEPT
                                    !.input_buffer = calls'[k].input_buffer]
                 /\ IsPrefix(calls[k].input_buffer, calls'[k].input_buffer)
              \/ calls'[k] = [calls[k] EXCEPT !.completed = TRUE]
              \/ /\ ~calls'[k].completed
                 /\ \E t \in ToolUses :
                       /\ calls'[k].id = t.id /\ calls'[k].name = t.name
                       /\ calls'[k].input_buffer = InitialBuffer(t.input)
      ]_vars

-----------------------------------------------------------------------------
(* Client::run_tool                                                        *)

\* input.get(key).and_then(|v| v.as_str()) is Some
HasStr(members, key) ==
    LET g == MapGet(members, key) IN g.some /\ IsString(g.value)

\* the arguments each tool requires, in the order run_tool asks for them
RequiredArgs(name) ==
    CASE name = "read" -> << <<"path">> >>
      [] name = "write" -> << <<"path">>, <<"content">> >>
      [] name = "edit" -> << <<"path">>, <<"old">>, <<"new">> >>
      [] name = "glob" -> << <<"pat">> >>
      [] name = "grep" -> << <<"pat">> >>
      [] name = "bash" -> << <<"cmd">> >>
      [] OTHER -> <<>>

KnownTools == {"read", "write", "edit", "glob", "grep", "bash"}

\* what the tool implementations (tools::read_tool, ...) may answer
ToolOutcomes ==
    { [ok |-> TRUE, text |-> <<"output">>],
      [ok |-> FALSE, text |-> <<"io failure">>] }

\* format!("error: {e}")
ErrorString(e) == <<"error: ">> \o e

\* the Result of the async block of run_tool
ToolAttempt(name, members, outcome) ==
    IF name \notin KnownTools
    THEN [ok |-> FALSE, text |-> <<"Unknown tool: ", name>>]
    ELSE LET req == RequiredArgs(name)
             missing == {k \in 1..Len(req) : ~HasStr(members, req[k])}
         IN IF missing # {}
            THEN LET k == CHOOSE k \in missing : \A j \in missing : k <= j
                 IN [ok |-> FALSE, text |-> <<"Missing ">> \o req[k]]
            ELSE outcome

\* mutation of RunTool: an Err of the tool is returned without the prefix
RunToolBare(name, members, outcome) ==
    ToolAttempt(name, members, outcome).text

\* Client::run_tool: Ok(s) => s, Err(e) => format!("error: {e}")
RunTool(name, members, outcome) ==
    LET r == ToolAttempt(name, members, outcome) IN
    IF r.ok THEN r.text ELSE ErrorString(r.text)

-----------------------------------------------------------------------------
(* CoreEvent, the messages of the history                                  *)

EvMessageStart == [ev |-> "MessageStart"]
EvMessageStop == [ev |-> "MessageStop"]
EvTextDelta(text) == [ev |-> "TextDelta", text |-> text]
EvToolCallStart(id, name) == [ev |-> "ToolCallStart", id |-> id, name |-> name]
EvToolExecuting(name) == [ev |-> "ToolExecuting", name |-> name]
EvToolResult(name, res) == [ev |-> "ToolResult", name |-> name, result |-> res]
EvError(text) == [ev |-> "Error", text |-> text]

TextBlock(text) == [type |-> "text", text |-> text]
ToolUseBlock(call) ==
    [type |-> "tool_use", id |-> call.id, name |-> call.name,
     input |-> call.input]
ToolResultBlock(id, content) ==
    [type |-> "tool_result", tool_use_id |-> id, content |-> content]
Message(role, content) == [role |-> role, content |-> content]

\* the user message Session::handle_command pushes before the loop runs
\* (its content, a plain string in the code, is held as one text block)
UserMessage == Message("user", << TextBlock(<<"q">>) >>)

-----------------------------------------------------------------------------
(* Client::run_agent_loop_stream                                           *)

\* tool-use blocks the scripted responses open
DriverToolUses ==
    { [id |-> "A", name |-> "read",
       input |-> JObj(<< <<(<<"path">>), JStr(<<"x">>)>> >>)],
      [id |-> "B", name |-> "bash", input |-> JStr(<<>>)],
      [id |-> "C", name |-> "nope",
       input |-> JObj(<< <<(<<"path">>), JStr(<<"x">>)>> >>)] }

\* partial_json fragments of the scripted responses
DriverFragments == { <<"{", "}">>, <<"1">> }

\* events a response stream yields that do not end the drain
StreamEvents ==
    { ToolUseStart(i, t.id, t.name, t.input) :
        i \in Indices, t \in DriverToolUses }
    \cup { InputJsonDelta(i, f) : i \in Indices, f \in DriverFragments }
    \cup { ContentBlockStop(i) : i \in Indices }
    \cup { TextDelta(0, <<"t">>), TextDelta(0, <<"u">>), TextStart(0),
           ErrorEvent(ApiErr(<<"overloaded">>)) }

\* Err items a response stream yields
StreamErrors == { ParseError(<<"Failed to parse SSE data">>), StreamError }

\* errors of create_message_stream
RequestErrors == { NetworkError, HttpError }

\* run_agent_loop_stream is entered with the user's message in the history
DriverStart ==
    /\ pc = "Requesting"
    /\ messages = << UserMessage >>
    /\ sent = <<>>
    /\ current_text = <<>>
    /\ tool_calls = <<>>
    /\ result = ResultNone
    /\ requests = 0
    /\ nitems = 0
    /\ base = 0
    /\ rcalls = <<>>
    /\ rtext = <<>>
    /\ ropen = {}
    /\ rdone = FALSE
    /\ errPhase = 0
    /\ lastRun = NoRun

DriverInit ==
    CollectorNew /\ DriverStart /\ DecoderIdle /\ SessionIdle /\ ModelsIdle

\* the CoreEvents the match of the drain loop sends for one event
Translate(e) ==
    IF IsTextDelta(e) THEN << EvTextDelta(e.delta.text) >>
    ELSE IF IsToolUseStart(e)
    THEN << EvToolCallStart(e.content_block.id, e.content_block.name) >>
    ELSE IF e.type = "Error" THEN << EvError(ErrorToString(e.error)) >>
    ELSE IF e.type = "MessageStop" THEN << EvMessageStop >>
    ELSE <<>>

\* the assistant message of a round with completed calls
AssistantMessage(text, done) ==
    Message("assistant",
            << TextBlock(text) >> \o [k \in 1..Len(done) |-> ToolUseBlock(done[k])])

\* mutation of Decide: a round without completed calls but with text goes on
\* to another request
DecideLoopingOnText(cs, text, events) ==
    IF HasCompletedCalls(cs) THEN
        /\ tool_calls' = TakeCompleted(cs)
        /\ calls' = <<>>
        /\ messages' = Append(messages, AssistantMessage(text, TakeCompleted(cs)))
        /\ current_text' = text
        /\ sent' = events
        /\ pc' = "ExecutingTools"
        /\ rcalls' = TakeCompleted(cs)
        /\ UNCHANGED result
    ELSE
        /\ messages' = IF text # <<>>
                       THEN Append(messages,
                                   Message("assistant", << TextBlock(text) >>))
                       ELSE messages
        /\ current_text' = text
        /\ sent' = events
        /\ calls' = cs
        /\ pc' = IF text # <<>> THEN "Requesting" ELSE "Returned"
        /\ result' = IF text # <<>> THEN result ELSE ResultOk
        /\ UNCHANGED <<tool_calls, rcalls>>

\* mutation of Decide: the next request is issued with the tools still to run
DecideRequestingAtOnce(cs, text, events) ==
    IF HasCompletedCalls(cs) THEN
        /\ tool_calls' = TakeCompleted(cs)
        /\ calls' = <<>>
        /\ messages' = Append(messages, AssistantMessage(text, TakeCompleted(cs)))
        /\ current_text' = text
        /\ sent' = events
        /\ pc' = "Requesting"
        /\ rcalls' = TakeCompleted(cs)
        /\ UNCHANGED result
    ELSE
        /\ messages' = IF text # <<>>
                       THEN Append(messages,
                                   Message("assistant", << TextBlock(text) >>))
                       ELSE messages
        /\ current_text' = text
        /\ sent' = events
        /\ calls' = cs
        /\ pc' = "Returned"
        /\ result' = ResultOk
        /\ UNCHANGED <<tool_calls, rcalls>>

IsPending(c) == ~c.completed

\* mutation of Decide: the drain of the collector leaves the slots that are
\* not completed
DecideKeepingOpenSlots(cs, text, events) ==
    IF HasCompletedCalls(cs) THEN
        /\ tool_calls' = TakeCompleted(cs)
        /\ calls' = SelectSeq(cs, IsPending)
        /\ messages' = Append(messages, AssistantMessage(text, TakeCompleted(cs)))
        /\ current_text' = text
        /\ sent' = events
        /\ pc' = "ExecutingTools"
        /\ rcalls' = TakeCompleted(cs)
        /\ UNCHANGED result
    ELSE
        /\ messages' = IF text # <<>>
                       THEN Append(messages,
                                   Message("assistant", << TextBlock(text) >>))
                       ELSE messages
        /\ current_text' = text
        /\ sent' = events
        /\ calls' = cs
        /\ pc' = "Returned"
        /\ result' = ResultOk
        /\ UNCHANGED <<tool_calls, rcalls>>

\* mutation of Decide: the final reply is put in front of the history
DecidePrepending(cs, text, events) ==
    IF HasCompletedCalls(cs) THEN
        /\ tool_calls' = TakeCompleted(cs)
        /\ calls' = <<>>
        /\ messages' = Append(messages, AssistantMessage(text, TakeCompleted(cs)))
        /\ current_text' = text
        /\ sent' = events
        /\ pc' = "ExecutingTools"
        /\ rcalls' = TakeCompleted(cs)
        /\ UNCHANGED result
    ELSE
        /\ messages' = IF text # <<>>
                       THEN << Message("assistant", << TextBlock(text) >>) >>
                            \o messages
                       ELSE messages
        /\ current_text' = text
        /\ sent' = events
        /\ calls' = cs
        /\ pc' = "Returned"
        /\ result' = ResultOk
        /\ UNCHANGED <<tool_calls, rcalls>>

\* the code after the drain loop, up to the first tool or the return
Decide(cs, text, events) ==
    IF HasCompletedCalls(cs) THEN
        /\ tool_calls' = TakeCompleted(cs)
        /\ calls' = <<>>
        /\ messages' = Append(messages, AssistantMessage(text, TakeCompleted(cs)))
        /\ current_text' = text
        /\ sent' = events
        /\ pc' = "ExecutingTools"
        /\ rcalls' = TakeCompleted(cs)
        /\ UNCHANGED result
    ELSE
        /\ messages' = IF text # <<>>
                       THEN Append(messages,
                                   Message("assistant", << TextBlock(text) >>))
                       ELSE messages
        /\ current_text' = text
        /\ sent' = events
        /\ calls' = cs
        /\ pc' = "Returned"
        /\ result' = ResultOk
        /\ UNCHANGED <<tool_calls, rcalls>>

\* mutation of Request: a failed request is tried again
RequestRetried ==
    /\ pc = "Requesting"
    /\ requests < MaxRequests
    /\ requests' = requests + 1
    /\ sent' = Append(sent, EvMessageStart)
    /\ \/ /\ pc' = "Streaming"
          /\ UNCHANGED result
       \/ \E err \in RequestErrors :
            /\ pc' = "Requesting"
            /\ result' = err
    /\ base' = Len(messages)
    /\ rcalls' = <<>>
    /\ rtext' = <<>>
    /\ ropen' = {}
    /\ rdone' = FALSE
    /\ errPhase' = 0
    /\ lastRun' = NoRun
    /\ UNCHANGED <<calls, messages, current_text, tool_calls, nitems>>
    /\ UNCHANGED <<collectorHistory, decoderVars, modelsVars, sessionVars>>

\* top of the loop: send MessageStart, create_message_stream(...).await?
Request ==
    /\ pc = "Requesting"
    /\ requests < MaxRequests
    /\ requests' = requests + 1
    /\ sent' = Append(sent, EvMessageStart)
    /\ \/ /\ pc' = "Streaming"
          /\ UNCHANGED result
       \/ \E err \in RequestErrors :
            /\ pc' = "Returned"
            /\ result' = err
    /\ base' = Len(messages)
    /\ rcalls' = <<>>
    /\ rtext' = <<>>
    /\ ropen' = {}
    /\ rdone' = FALSE
    /\ errPhase' = 0
    /\ lastRun' = NoRun
    /\ UNCHANGED <<calls, messages, current_text, tool_calls, nitems>>
    /\ UNCHANGED <<collectorHistory, decoderVars, modelsVars, sessionVars>>

\* the events the model lets the response streams yield: of one loop run on
\* its own, of the loops of a session
ItemBudget == IF ncmds = 0 THEN MaxItems ELSE MaxSessionItems

\* stream.next() yields Some(Ok(event)), event not MessageStop
StreamEvent ==
    /\ pc = "Streaming"
    /\ nitems < ItemBudget
    /\ \E e \in StreamEvents :
        /\ sent' = sent \o Translate(e)
        /\ current_text' = IF IsTextDelta(e)
                           THEN PushStr(current_text, e.delta.text)
                           ELSE current_text
        /\ calls' = ProcessEvent(calls, e)
        /\ rtext' = IF IsTextDelta(e) THEN rtext \o e.delta.text ELSE rtext
        /\ ropen' = IF IsToolUseStart(e) THEN ropen \cup {e.index}
                    ELSE IF e.type = "ContentBlockStop" THEN ropen \ {e.index}
                    ELSE ropen
        /\ rdone' = (rdone \/ (e.type = "ContentBlockStop" /\ e.index \in ropen))
        /\ errPhase' = IF errPhase > 0 THEN 2
                       ELSE IF e.type = "Error" THEN 1 ELSE 0
    /\ nitems' = nitems + 1
    /\ UNCHANGED <<pc, messages, tool_calls, result, requests>>
    /\ UNCHANGED <<base, rcalls, lastRun>>
    /\ UNCHANGED <<collectorHistory, decoderVars, modelsVars, sessionVars>>

\* mutation of StreamMessageStop: MessageStop is sent and the drain goes on
StreamMessageStopDraining ==
    /\ pc = "Streaming"
    /\ nitems < ItemBudget
    /\ sent' = sent \o Translate(MessageStop)
    /\ nitems' = nitems + 1
    /\ errPhase' = IF errPhase > 0 THEN 2 ELSE 0
    /\ UNCHANGED <<pc, calls, messages, current_text, tool_calls, result,
                   requests, base, rcalls, rtext, ropen, rdone, lastRun>>
    /\ UNCHANGED <<collectorHistory, decoderVars, modelsVars, sessionVars>>

\* stream.next() yields Some(Ok(MessageStop)): break, then the decision
StreamMessageStop ==
    /\ pc = "Streaming"
    /\ Decide(calls, current_text, sent \o Translate(MessageStop))
    /\ errPhase' = IF errPhase > 0 THEN 2 ELSE 0
    /\ UNCHANGED <<requests, nitems, base, rtext, ropen, rdone, lastRun>>
    /\ UNCHANGED <<collectorHistory, decoderVars, modelsVars, sessionVars>>

\* stream.next() yields None: the drain loop ends, then the decision
StreamEnd ==
    /\ pc = "Streaming"
    /\ Decide(calls, current_text, sent)
    /\ UNCHANGED <<requests, nitems, base, rtext, ropen, rdone, errPhase,
                   lastRun>>
    /\ UNCHANGED <<collectorHistory, decoderVars, modelsVars, sessionVars>>

\* mutation of StreamErr: the text received so far is saved before returning
StreamErrSavingText ==
    /\ pc = "Streaming"
    /\ \E err \in StreamErrors : result' = err
    /\ pc' = "Returned"
    /\ messages' = IF current_text # <<>>
                   THEN Append(messages,
                               Message("assistant", << TextBlock(current_text) >>))
                   ELSE messages
    /\ UNCHANGED <<calls, sent, current_text, tool_calls, requests, nitems>>
    /\ UNCHANGED driverHistory
    /\ UNCHANGED <<collectorHistory, decoderVars, modelsVars, sessionVars>>

\* stream.next() yields Some(Err(e)): `event_result?` returns Err(e)
StreamErr ==
    /\ pc = "Streaming"
    /\ \E err \in StreamErrors : result' = err
    /\ pc' = "Returned"
    /\ UNCHANGED <<calls, messages, sent, current_text, tool_calls,
                   requests, nitems>>
    /\ UNCHANGED driverHistory
    /\ UNCHANGED <<collectorHistory, decoderVars, modelsVars, sessionVars>>

\* mutation of ExecuteTool: current_text is not reset after the last tool
ExecuteToolKeepingText ==
    /\ pc = "ExecutingTools"
    /\ tool_calls # <<>>
    /\ LET call == Head(tool_calls) IN
       IF ~IsObject(call.input) THEN
           /\ sent' = Append(sent, EvToolExecuting(call.name))
           /\ result' = ParseError(<<"Tool input is not an object for tool: ",
                                     call.name>>)
           /\ pc' = "Returned"
           /\ lastRun' = NoRun
           /\ UNCHANGED <<messages, tool_calls>>
       ELSE \E outcome \in ToolOutcomes :
           LET res == RunTool(call.name, call.input[2], outcome)
               att == ToolAttempt(call.name, call.input[2], outcome) IN
           /\ lastRun' = [some |-> TRUE, id |-> call.id, name |-> call.name,
                          ok |-> att.ok, text |-> att.text]
           /\ sent' = sent \o << EvToolExecuting(call.name),
                                 EvToolResult(call.name, res) >>
           /\ messages' = Append(messages,
                  Message("user", << ToolResultBlock(call.id, res) >>))
           /\ tool_calls' = Tail(tool_calls)
           /\ pc' = IF Tail(tool_calls) = <<>> THEN "Requesting" ELSE pc
           /\ UNCHANGED result
    /\ UNCHANGED <<calls, current_text, requests, nitems>>
    /\ UNCHANGED <<base, rcalls, rtext, ropen, rdone, errPhase>>
    /\ UNCHANGED <<collectorHistory, decoderVars, modelsVars, sessionVars>>

\* one turn of `for call in tool_calls`; after the last, reset current_text
ExecuteTool ==
    /\ pc = "ExecutingTools"
    /\ tool_calls # <<>>
    /\ LET call == Head(tool_calls) IN
       IF ~IsObject(call.input) THEN
           /\ sent' = Append(sent, EvToolExecuting(call.name))
           /\ result' = ParseError(<<"Tool input is not an object for tool: ",
                                     call.name>>)
           /\ pc' = "Returned"
           /\ lastRun' = NoRun
           /\ UNCHANGED <<messages, current_text, tool_calls>>
       ELSE \E outcome \in ToolOutcomes :
           LET res == RunTool(call.name, call.input[2], outcome)
               att == ToolAttempt(call.name, call.input[2], outcome) IN
           /\ lastRun' = [some |-> TRUE, id |-> call.id, name |-> call.name,
                          ok |-> att.ok, text |-> att.text]
           /\ sent' = sent \o << EvToolExecuting(call.name),
                                 EvToolResult(call.name, res) >>
           /\ messages' = Append(messages,
                  Message("user", << ToolResultBlock(call.id, res) >>))
           /\ tool_calls' = Tail(tool_calls)
           /\ IF Tail(tool_calls) = <<>>
              THEN /\ current_text' = <<>>
                   /\ pc' = "Requesting"
              ELSE UNCHANGED <<current_text, pc>>
           /\ UNCHANGED result
    /\ UNCHANGED <<calls, requests, nitems>>
    /\ UNCHANGED <<base, rcalls, rtext, ropen, rdone, errPhase>>
    /\ UNCHANGED <<collectorHistory, decoderVars, modelsVars, sessionVars>>

DriverNext ==
    \/ Request
    \/ StreamEvent
    \/ StreamMessageStop
    \/ StreamEnd
    \/ StreamErr
    \/ ExecuteTool

SpecDriver == DriverInit /\ [][DriverNext]_vars

\* the loop is not suspended for ever: every response stream yields its next
\* item or ends, every tool returns
SpecDriverFair == SpecDriver /\ WF_vars(DriverNext)

-----------------------------------------------------------------------------
(* Claims about the driver                                                 *)

IsToolResultFor(m, id) ==
    /\ m.role = "user"
    /\ Len(m.content) = 1
    /\ m.content[1].type = "tool_result"
    /\ m.content[1].tool_use_id = id

\* the history of a round that completed the calls A then B, once its tools
\* are through: one assistant message (text block, tool_use A, tool_use B),
\* then the tool_result messages of A and of B
RoundTripDone ==
    /\ Len(messages) = base + 3
    /\ messages[base + 1] = AssistantMessage(rtext, rcalls)
    /\ IsToolResultFor(messages[base + 2], rcalls[1].id)
    /\ IsToolResultFor(messages[base + 3], rcalls[2].id)

\* C3 as stated: a response that completes two tool calls A then B leaves
\* exactly one assistant message (text, tool_use A, tool_use B) followed by
\* exactly two user messages with the tool_result of A, then of B, and the
\* next request is issued only after both: whenever the loop is about to
\* issue a request or has returned, the three messages are in the history.
C3_ToolRoundTrip ==
    (/\ Len(rcalls) = 2 /\ pc \in {"Requesting", "Returned"}
     /\ rcalls[1].id # "" /\ rcalls[2].id # "")
        => RoundTripDone

\* C3 for calls whose inputs are JSON objects (what the code does keep)
C3_RoundTripOfObjects ==
    (/\ Len(rcalls) = 2 /\ pc \in {"Requesting", "Returned"}
     /\ rcalls[1].id # "" /\ rcalls[2].id # ""
     /\ IsObject(rcalls[1].input) /\ IsObject(rcalls[2].input))
        => RoundTripDone

C3_RoundTripReached ==
    /\ Len(rcalls) = 2 /\ pc = "Requesting" /\ RoundTripDone
    /\ rtext # <<>> /\ rcalls[1].id # rcalls[2].id

\* the loop returned because the transport failed, not because of what the
\* response held
TransportFailed == result.kind \in {"NetworkError", "HttpError", "StreamError"}

\* C4 as stated: when the first response holds no completed tool call and a
\* non-empty text delta, the loop issues one request, appends exactly one
\* assistant message whose single text block is the accumulated text,
\* appends nothing else and returns Ok.
C4_SingleRoundText ==
    (/\ pc = "Returned" /\ requests = 1 /\ ~TransportFailed
     /\ rtext # <<>> /\ ~rdone)
        => /\ result = ResultOk
           /\ messages = << UserMessage,
                            Message("assistant", << TextBlock(rtext) >>) >>

\* C4 for responses whose drain reaches the decision and in which no
\* ContentBlockStop hits a slot (what the code does keep)
C4_SingleRoundOfCleanStream ==
    (/\ pc = "Returned" /\ requests = 1 /\ ~IsErr(result)
     /\ rtext # <<>> /\ rcalls = <<>>)
        => messages = << UserMessage,
                         Message("assistant", << TextBlock(rtext) >>) >>

\* C5 as stated: when a completed call's buffer is not valid JSON or does
\* not parse to an object, the loop does not return Err: once the round's
\* tools are through or the loop has returned, the result is no Err and the
\* history holds a tool_result message for the id of each call of the round.
C5_MalformedArgsNeverAbort ==
    (/\ pc \in {"Requesting", "Returned"}
     /\ \E k \in 1..Len(rcalls) : ~IsObject(rcalls[k].input))
        => /\ ~IsErr(result)
           /\ Len(messages) = base + 1 + Len(rcalls)
           /\ \A k \in 1..Len(rcalls) :
                IsToolResultFor(messages[base + 1 + k], rcalls[k].id)

C7_WitnessUnknownTool ==
    /\ lastRun.some /\ lastRun.text = <<"Unknown tool: ", "nope">>
    /\ pc = "Requesting"

C7_WitnessMissingArgument ==
    /\ lastRun.some /\ lastRun.text = <<"Missing ", "cmd">>
    /\ pc = "Requesting"

\* C8 as stated: a ParseError item for one malformed frame never makes the
\* loop return Err.
C8_ParseErrorNonFatal ==
    ~(/\ pc = "Returned"
      /\ result = ParseError(<<"Failed to parse SSE data">>))

\* C10 as stated: once an Error event was drained, no later event of the
\* same response is translated, added to current_text or fed to the
\* collector.
C10_ErrorEventEndsDrain == errPhase # 2

\* the loop's result is the error of a request
RequestFailed(r) == r.kind \in {"NetworkError", "HttpError"}

\* C11: the step in which a request fails with a NetworkError or an HttpError
\* is the request itself, it makes the loop return and leaves the history
\* as it was before the request; after it no request is issued and the
\* history and the result stay as they are.
C11_RequestFailureLeavesHistory ==
    [][ /\ (RequestFailed(result') /\ ~RequestFailed(result)) =>
              /\ pc = "Requesting" /\ pc' = "Returned"
              /\ requests' = requests + 1
              /\ messages' = messages
        /\ RequestFailed(result) =>
              UNCHANGED <<pc, requests, messages, result>> ]_vars

\* C11 witness: the second request failed, after a round of tools: the
\* history holds that round and nothing of the failed one
C11_Witness ==
    /\ pc = "Returned" /\ result = HttpError /\ requests = 2
    /\ Len(messages) = base /\ base > 1

\* C14: a request is issued only when no response is being drained and no
\* tool is running or still to run; request k+1 is issued only after the
\* decision on response k was taken with completed calls and the
\* tool_result message of each call of round k, in order, was appended.
C14_OneRequestInFlight ==
    [][ requests' = requests + 1 =>
          /\ pc = "Requesting"
          /\ tool_calls = <<>>
          /\ requests > 0 =>
                /\ rcalls # <<>>
                /\ Len(messages) = base + 1 + Len(rcalls)
                /\ messages[base + 1] = AssistantMessage(rtext, rcalls)
                /\ \A k \in 1..Len(rcalls) :
                     IsToolResultFor(messages[base + 1 + k], rcalls[k].id) ]_vars

\* C14 witness: the second response is being drained, after a round of two
\* tools whose results are in the history
C14_Witness ==
    /\ requests = 2 /\ pc = "Streaming" /\ base = 4
    /\ messages[3].content[1].type = "tool_result"
    /\ messages[4].content[1].type = "tool_result"

\* the rounds with completed calls: each left one assistant message with
\* tool_use blocks in the history
ToolRounds ==
    Cardinality({ k \in 1..Len(messages) :
                    /\ messages[k].role = "assistant"
                    /\ \E j \in 1..Len(messages[k].content) :
                          messages[k].content[j].type = "tool_use" })

\* C15: a further request is issued only after a response that produced a
\* completed call; on an Ok return the requests issued are the rounds with
\* completed calls plus one; and, the response streams being finite, the
\* loop returns unless each of its MaxRequests responses produced a
\* completed call.
C15_LoopTermination ==
    /\ [][ (requests' = requests + 1 /\ requests > 0) => rcalls # <<>> ]_vars
    /\ [](result = ResultOk => requests = ToolRounds + 1)
    /\ <>(\/ pc = "Returned"
          \/ pc = "Requesting" /\ requests = MaxRequests
                               /\ ToolRounds = MaxRequests)

\* C15 witness: Ok after two requests, the first response with completed
\* calls, the second with text only
C15_Witness ==
    /\ pc = "Returned" /\ result = ResultOk
    /\ requests = 2 /\ ToolRounds = 1 /\ rtext # <<>>

\* the first d calls of the round have run, one after the other: the last
\* 2d events are ToolExecuting(c1), ToolResult(c1), .., ToolExecuting(cd),
\* ToolResult(cd), and the history ends with their tool_result messages,
\* each carrying the result the event carried
RanInOrder(d) ==
    LET off == Len(sent) - 2 * d IN
    /\ off >= 0
    /\ Len(messages) = base + 1 + d
    /\ \A k \in 1..d :
          /\ sent[off + 2 * k - 1] = EvToolExecuting(rcalls[k].name)
          /\ sent[off + 2 * k].ev = "ToolResult"
          /\ sent[off + 2 * k].name = rcalls[k].name
          /\ messages[base + 1 + k] =
                Message("user", << ToolResultBlock(rcalls[k].id,
                                                   sent[off + 2 * k].result) >>)

\* C17 as stated: for the completed calls c1..cn of a round the renderer
\* sees ToolExecuting(c1), ToolResult(c1), .., ToolExecuting(cn),
\* ToolResult(cn), the tool_result message of each call appended before
\* the next call starts: once the round is over, all n calls ran in order.
C17_ToolsRunInOrder ==
    (rcalls # <<>> /\ pc \in {"Requesting", "Returned"}) =>
        RanInOrder(Len(rcalls))

\* C17 for the calls that did run (what the code does keep): between two
\* tools and after the last, the calls run so far ran in order
C17_RunSoFarInOrder ==
    (rcalls # <<>> /\ pc \in {"ExecutingTools", "Requesting"}) =>
        RanInOrder(Len(rcalls) - Len(tool_calls))

\* the tool_use blocks of a message, in order
IsToolUseBlock(b) == b.type = "tool_use"
ToolUsesOf(m) == SelectSeq(m.content, IsToolUseBlock)

\* each tool_use block of each assistant message is followed by the
\* tool_result messages of its ids, in the order of the blocks
EveryToolUseHasResult ==
    \A k \in 1..Len(messages) :
        messages[k].role = "assistant" =>
            LET uses == ToolUsesOf(messages[k]) IN
            /\ k + Len(uses) <= Len(messages)
            /\ \A j \in 1..Len(uses) :
                  IsToolResultFor(messages[k + j], uses[j].id)

\* C24 as stated: whenever the loop has returned, with Ok or with Err, every
\* tool_use block of an assistant message is matched by a later tool_result
\* message of the same id, in the order of the tool_use blocks.
C24_ToolUseMatchedOnReturn == pc = "Returned" => EveryToolUseHasResult

\* C24 for the returns with Ok and for the failures of a request or of the
\* stream (what the code does keep)
C24_MatchedUnlessToolInputRejected ==
    (pc = "Returned" /\ (result = ResultOk \/ TransportFailed
                          \/ result = ParseError(<<"Failed to parse SSE data">>)))
        => EveryToolUseHasResult

\* C25: the step in which the stream yields an Err item while a response is
\* drained makes the loop return that Err and leaves the history as it was
\* when the round's request was issued: nothing is appended for the round,
\* whatever text and completed blocks were received, and the messages of
\* the earlier rounds stay as they are.
C25_StreamErrorAppendsNothing ==
    [][ (pc = "Streaming" /\ result' \in StreamErrors) =>
          /\ pc' = "Returned"
          /\ IsErr(result')
          /\ messages' = messages
          /\ Len(messages') = base ]_vars

\* C25 witness: the second response failed after a text delta and a
\* completed tool-use block; the history holds the first round only
C25_Witness ==
    /\ pc = "Returned" /\ result = StreamError /\ requests = 2
    /\ rtext # <<>> /\ rdone /\ HasCompletedCalls(calls)
    /\ Len(messages) = base /\ base > 1

\* the events of one kind sent so far
CountSent(kind) == Cardinality({ j \in 1..Len(sent) : sent[j].ev = kind })

\* C26 as stated: once a response is fully drained, one MessageStart and one
\* MessageStop were sent for each request/response cycle so far.
C26_OneStartOneStopPerCycle ==
    (pc \in {"ExecutingTools", "Requesting", "Returned"} /\ ~IsErr(result)) =>
        /\ CountSent("MessageStart") = requests
        /\ CountSent("MessageStop") = requests

\* C26 for MessageStart, and for the responses that hold a MessageStop
\* (what the code does keep): one MessageStart per request, at most one
\* MessageStop per request
C26_OneStartAtMostOneStop ==
    /\ CountSent("MessageStart") = requests
    /\ CountSent("MessageStop") <= requests

\* a MessageStop was drained from the response of the latest request
StoppedThisRound ==
    \E j \in 1..Len(sent) :
        /\ sent[j] = EvMessageStop
        /\ \A k \in (j + 1)..Len(sent) : sent[k] # EvMessageStart

\* events only the drain of a response sends
IsDrainEvent(ev) == ev.ev \in {"TextDelta", "ToolCallStart", "Error", "MessageStop"}

\* C27: once a MessageStop was drained from a response the drain is over;
\* until the next request no event is taken from the stream, none is
\* translated, the collector is fed nothing and current_text gets no text.
C27_DrainStopsAtMessageStop ==
    /\ [](StoppedThisRound => pc # "Streaming")
    /\ [][ StoppedThisRound =>
              /\ nitems' = nitems
              /\ calls' = calls
              /\ current_text' \in {current_text, <<>>}
              /\ \A j \in (Len(sent) + 1)..Len(sent') : ~IsDrainEvent(sent'[j])
          ]_vars

\* C27 witness: the drain ended at MessageStop with text received and a
\* completed call to run
C27_Witness ==
    /\ sent # <<>> /\ sent[Len(sent)] = EvMessageStop
    /\ pc = "ExecutingTools" /\ current_text # <<>> /\ tool_calls # <<>>

\* C29: while a response is drained the slot count of the collector never
\* decreases; take_completed is called at most once per response, when its
\* drain is over and before the next request, and it leaves no slot; when
\* a request is issued the collector holds no slot.
C29_CollectorResetBetweenResponses ==
    [][ /\ (pc = "Streaming" /\ pc' = "Streaming") => Len(calls') >= Len(calls)
        /\ rcalls' # rcalls =>
              \/ requests' = requests + 1 /\ rcalls' = <<>>
              \/ /\ pc = "Streaming" /\ pc' = "ExecutingTools"
                 /\ rcalls = <<>> /\ requests' = requests
                 /\ calls' = <<>>
        /\ requests' = requests + 1 => (calls = <<>> /\ calls' = <<>>) ]_vars

\* C29 witness: the first response left a started, unstopped block beside
\* its completed call; the round is over and the collector is empty
C29_Witness ==
    /\ pc = "Requesting" /\ requests = 1 /\ rcalls # <<>> /\ ropen # {}
    /\ calls = <<>>

\* C29 witness: the second response is drained into a collector that holds
\* its slots only
C29_WitnessNextResponse ==
    /\ pc = "Streaming" /\ requests = 2 /\ Len(calls) = 1
    /\ base > 1

\* position in sent of the MessageStart of the latest request (0: none)
RoundStart ==
    IF \E j \in 1..Len(sent) : sent[j] = EvMessageStart
    THEN CHOOSE j \in 1..Len(sent) :
            /\ sent[j] = EvMessageStart
            /\ \A k \in (j + 1)..Len(sent) : sent[k] # EvMessageStart
    ELSE 0

\* the payloads of the TextDelta events among evs, concatenated in order
RECURSIVE ConcatDeltas(_)
ConcatDeltas(evs) ==
    IF evs = <<>> THEN <<>>
    ELSE (IF Head(evs).ev = "TextDelta" THEN Head(evs).text ELSE <<>>)
         \o ConcatDeltas(Tail(evs))

\* the text of the TextDelta events sent in the round of the latest request
RoundText == ConcatDeltas(SubSeq(sent, RoundStart + 1, Len(sent)))

\* C30: each internal text delta is sent as one TextDelta event, in the
\* order decoded; while a response is drained current_text is the
\* concatenation of the round's TextDelta payloads; the text block of the
\* round's assistant message is that concatenation; current_text is empty
\* whenever a request is issued.
C30_TextOfRound ==
    /\ [][ (rtext' # rtext /\ requests' = requests) =>
              /\ Len(sent') = Len(sent) + 1
              /\ sent'[Len(sent')].ev = "TextDelta"
              /\ rtext' = rtext \o sent'[Len(sent')].text ]_vars
    /\ [](RoundText = rtext)
    /\ [](pc = "Streaming" => current_text = RoundText)
    /\ []((requests > 0 /\ Len(messages) > base) =>
              /\ messages[base + 1].role = "assistant"
              /\ messages[base + 1].content[1] = TextBlock(RoundText))
    /\ [][ requests' = requests + 1 => current_text = <<>> ]_vars

\* C30 witness: the second round's assistant message holds the text u, t of
\* that round, the first round's text t is in the first one only
C30_Witness ==
    /\ pc = "Returned" /\ result = ResultOk /\ requests = 2
    /\ Len(messages) = base + 1 /\ base = 3
    /\ messages[2].content[1] = TextBlock(<<"t">>)
    /\ messages[base + 1] = Message("assistant", << TextBlock(<<"u", "t">>) >>)

\* C31 as stated: a response in which no tool-use block was completed and
\* no text was received ends the loop with Ok and leaves the history as it
\* was when the response's request was issued.
C31_EmptyResponseLeavesHistory ==
    (/\ pc = "Returned" /\ requests > 0 /\ ~TransportFailed
     /\ result # ParseError(<<"Failed to parse SSE data">>)
     /\ rtext = <<>> /\ ~rdone)
        => (result = ResultOk /\ Len(messages) = base)

\* C31 for the collector's view of the response (what the code does keep):
\* the step that ends a drain with no completed slot in the collector and
\* no accumulated text returns Ok and leaves the history as it was
C31_NoCompletedSlotEndsLoop ==
    [][ (/\ pc = "Streaming" /\ pc' # "Streaming" /\ result' \notin StreamErrors
         /\ ~HasCompletedCalls(calls) /\ current_text = <<>>) =>
            /\ pc' = "Returned"
            /\ result' = ResultOk
            /\ messages' = messages
            /\ Len(messages') = base ]_vars

\* C32 as stated: when a response left a tool-use block started and not
\* stopped beside completed calls, the unfinished slot is discarded by the
\* drain and is in no history message, and the completed calls are
\* executed: once the round is over each has run and has its tool_result.
C32_UnfinishedBlockDiscarded ==
    (ropen # {} /\ rcalls # <<>> /\ pc \in {"Requesting", "Returned"}) =>
        /\ calls = <<>>
        /\ ToolUsesOf(messages[base + 1]) =
              [k \in 1..Len(rcalls) |-> ToolUseBlock(rcalls[k])]
        /\ RanInOrder(Len(rcalls))

\* C32 for the unfinished block (what the code does keep): the step that
\* drains the collector returns the completed slots only, in slot order,
\* puts those alone in the assistant message and in the calls to run, and
\* leaves no slot; without a completed slot nothing is appended or run
C32_OnlyCompletedSlotsTaken ==
    [][ (pc = "Streaming" /\ pc' # "Streaming" /\ result' \notin StreamErrors) =>
          LET done == SelectSeq(calls, IsCompleted) IN
          IF done = <<>>
          THEN /\ tool_calls' = <<>> /\ pc' = "Returned"
               /\ \A k \in (Len(messages) + 1)..Len(messages') :
                     ToolUsesOf(messages'[k]) = <<>>
          ELSE /\ calls' = <<>>
               /\ Len(tool_calls') = Len(done)
               /\ \A k \in 1..Len(done) :
                     /\ tool_calls'[k].id = done[k].id
                     /\ tool_calls'[k].name = done[k].name
               /\ ToolUsesOf(messages'[Len(messages')]) =
                     [k \in 1..Len(done) |-> ToolUseBlock(tool_calls'[k])]
      ]_vars

\* C33: every step of a loop invocation leaves the history as it was or
\* appends to it: the previous history is a prefix of the new one.
C33_HistoryAppendOnly == [][ IsPrefix(messages, messages') ]_vars

\* C33 witness: two rounds appended an assistant message with a tool_use
\* block, its tool_result, and the final reply after the user's message
C33_Witness ==
    /\ pc = "Returned" /\ result = ResultOk /\ Len(messages) = 4
    /\ messages[1] = UserMessage
    /\ ToolUsesOf(messages[2]) # <<>>
    /\ messages[3].content[1].type = "tool_result"
    /\ messages[4].role = "assistant"

\* the assistant message of the round holds a text block
HasTextBlock(m) == \E j \in 1..Len(m.content) : m.content[j].type = "text"

\* C22 as stated: the assistant message of a round with completed calls
\* holds a text block only if the round's text is non-empty; with no text
\* its content is the tool_use blocks alone.
C22_TextBlockOnlyWithText ==
    (rcalls # <<>> /\ rtext = <<>>) =>
        /\ ~HasTextBlock(messages[base + 1])
        /\ messages[base + 1].content =
              [k \in 1..Len(rcalls) |-> ToolUseBlock(rcalls[k])]

\* C22 for a round with text (what the code does keep): the text block
\* comes first, then one tool_use block per completed call, in call order
C22_TextThenToolUses ==
    (rcalls # <<>> /\ rtext # <<>>) =>
        messages[base + 1].content =
            << TextBlock(rtext) >>
            \o [k \in 1..Len(rcalls) |-> ToolUseBlock(rcalls[k])]

-----------------------------------------------------------------------------
(* AnthropicClient::run_agent_loop_stream (src/src/api.rs), the client of  *)
(* the first binary: same loop, output printed instead of sent, and        *)
(* process_event called in the `_` arm of the match only                   *)

\* the collector after the match of the drain loop handled event e
LegacyFeed(cs, e) ==
    IF e.type \in {"ContentBlockDelta", "ContentBlockStart", "Error"} THEN cs
    ELSE ProcessEvent(cs, e)

\* top of the loop: create_message_stream(...).await?
LegacyRequest ==
    /\ pc = "Requesting"
    /\ requests < MaxRequests
    /\ requests' = requests + 1
    /\ \/ /\ pc' = "Streaming"
          /\ UNCHANGED result
       \/ \E err \in RequestErrors :
            /\ pc' = "Returned"
            /\ result' = err
    /\ base' = Len(messages)
    /\ rcalls' = <<>>
    /\ rtext' = <<>>
    /\ ropen' = {}
    /\ rdone' = FALSE
    /\ errPhase' = 0
    /\ lastRun' = NoRun
    /\ UNCHANGED <<calls, messages, sent, current_text, tool_calls, nitems>>
    /\ UNCHANGED <<collectorHistory, decoderVars, modelsVars, sessionVars>>

\* stream.next() yields Some(Ok(event)), event not MessageStop; a text delta
\* is printed and stdout flushed, which may fail
LegacyStreamEvent ==
    /\ pc = "Streaming"
    /\ nitems < MaxItems
    /\ \E e \in StreamEvents :
        \/ /\ current_text' = IF IsTextDelta(e)
                               THEN PushStr(current_text, e.delta.text)
                               ELSE current_text
           /\ calls' = LegacyFeed(calls, e)
           /\ rtext' = IF IsTextDelta(e) THEN rtext \o e.delta.text ELSE rtext
           /\ ropen' = IF IsToolUseStart(e) THEN ropen \cup {e.index}
                       ELSE IF e.type = "ContentBlockStop"
                       THEN ropen \ {e.index}
                       ELSE ropen
           /\ rdone' = (rdone \/ (e.type = "ContentBlockStop"
                                     /\ e.index \in ropen))
           /\ errPhase' = IF errPhase > 0 THEN 2
                          ELSE IF e.type = "Error" THEN 1 ELSE 0
           /\ UNCHANGED <<pc, result>>
        \/ /\ IsTextDelta(e)
           /\ result' = [kind |-> "StreamError", text |-> <<"flush">>]
           /\ pc' = "Returned"
           /\ UNCHANGED <<current_text, calls, rtext, ropen, rdone, errPhase>>
    /\ nitems' = nitems + 1
    /\ UNCHANGED <<messages, sent, tool_calls, requests>>
    /\ UNCHANGED <<base, rcalls, lastRun>>
    /\ UNCHANGED <<collectorHistory, decoderVars, modelsVars, sessionVars>>

\* stream.next() yields Some(Ok(MessageStop)) or None: the drain loop ends,
\* then the decision
LegacyStreamStop ==
    /\ pc = "Streaming"
    /\ Decide(calls, current_text, sent)
    /\ UNCHANGED <<requests, nitems, base, rtext, ropen, rdone, errPhase,
                   lastRun>>
    /\ UNCHANGED <<collectorHistory, decoderVars, modelsVars, sessionVars>>

LegacyNext ==
    \/ LegacyRequest
    \/ LegacyStreamEvent
    \/ LegacyStreamStop
    \/ StreamErr

SpecLegacy == DriverInit /\ [][LegacyNext]_vars

-----------------------------------------------------------------------------
(* Claims about the drain of a response                                    *)

\* the response streamed a tool-use block from its ContentBlockStart to its
\* ContentBlockStop, and no tool-use block is left open
ToolUseStreamed == rdone /\ ropen = {}

\* the drain of the response was completed and the decision taken
DrainCompleted ==
    /\ pc \in {"ExecutingTools", "Requesting", "Returned"}
    /\ requests > 0
    /\ ~(pc = "Requesting" /\ rcalls = <<>>)
    /\ ~TransportFailed
    /\ result # ParseError(<<"Failed to parse SSE data">>)

\* C21 as stated: when a response streamed a tool-use block as
\* ContentBlockStart, deltas, ContentBlockStop, has_completed_calls() is
\* true after the drain: the round has completed calls to execute.
C21_StreamedToolIsExecuted ==
    (ToolUseStreamed /\ DrainCompleted) => rcalls # <<>>

\* C21 in Client::run_agent_loop_stream of the core crate, where every event
\* is fed to the collector: the streamed block is a completed call
C21_CoreCompletesStreamedTool ==
    (ToolUseStreamed /\ DrainCompleted) =>
        (rcalls # <<>> /\ messages[base + 1] = AssistantMessage(rtext, rcalls))

-----------------------------------------------------------------------------
(* parse_sse_stream                                                        *)
(*                                                                         *)
(* The text of a response body is a sequence of characters in which the    *)
(* prefix "data: ", the marker "[DONE]", the newline and each JSON token   *)
(* count as one character each.                                            *)

\* Stream items: Ok(event) and Err(error)
OkItem(e) == [ok |-> TRUE, val |-> e]
ErrItem(x) == [ok |-> FALSE, val |-> x]

\* a String of one word held as a name (ids and tool names are single words)
StringOf(content) == IF content = <<>> THEN "" ELSE content[1]

\* Value::get(key): None unless the value is an object with that member
ValueGet(v, key) ==
    IF IsObject(v) THEN MapGet(v[2], key)
    ELSE [some |-> FALSE, value |-> JNull]

\* a u64 held as its two 32-bit halves, hi * 2^32 + lo (the integers of the
\* checker end below 2^32); the low halves of the model's literals are small
U64(hi, lo) == [hi |-> hi, lo |-> lo]

\* the number literals that are non-negative integers, and their values
U64Lits ==
    << <<"0", U64(0, 0)>>, <<"1", U64(0, 1)>>, <<"2", U64(0, 2)>>,
       <<"4294967296", U64(1, 0)>>, <<"4294967297", U64(1, 1)>> >>

\* Value::as_u64 of a number literal of the model: <<n>>, or <<>> for None
\* (a negative number and a number with a fraction are not a u64)
AsU64(v) ==
    IF IsNumber(v) /\ \E k \in 1..Len(U64Lits) : U64Lits[k][1] = v[2][1]
    THEN << U64Lits[CHOOSE k \in 1..Len(U64Lits) : U64Lits[k][1] = v[2][1]][2] >>
    ELSE <<>>

\* value.get("index").and_then(Value::as_u64).unwrap_or(0)
IndexU64(v) ==
    LET m == ValueGet(v, <<"index">>)
        n == IF m.some THEN AsU64(m.value) ELSE <<>>
    IN IF n = <<>> THEN U64(0, 0) ELSE n[1]

\* value.get("index").and_then(Value::as_u64).unwrap_or(0)
\*      .try_into().unwrap_or(0): u32::try_from fails above u32::MAX
IndexOf(v) == IF IndexU64(v).hi = 0 THEN IndexU64(v).lo ELSE 0

\* does the object hold a string under key
HasString(v, key) == ValueGet(v, key).some /\ IsString(ValueGet(v, key).value)

\* the tag of an internally tagged enum: the content of "type" ("?": none)
TagOf(v) == IF HasString(v, <<"type">>) THEN ValueGet(v, <<"type">>).value[2]
            ELSE <<"?">>

\* serde_json::from_value::<ContentBlock>: <<block>>, or <<>> on failure
ContentBlockFromValue(v) ==
    IF TagOf(v) = <<"text">> /\ HasString(v, <<"text">>)
    THEN << [type |-> "text", text |-> ValueGet(v, <<"text">>).value[2]] >>
    ELSE IF /\ TagOf(v) = <<"tool_use">>
            /\ HasString(v, <<"id">>) /\ HasString(v, <<"name">>)
            /\ ValueGet(v, <<"input">>).some
    THEN << [type |-> "tool_use",
             id |-> StringOf(ValueGet(v, <<"id">>).value[2]),
             name |-> StringOf(ValueGet(v, <<"name">>).value[2]),
             input |-> ValueGet(v, <<"input">>).value] >>
    ELSE <<>>

\* serde_json::from_value::<Delta>: <<delta>>, or <<>> on failure
DeltaFromValue(v) ==
    IF TagOf(v) = <<"text_delta">> /\ HasString(v, <<"text">>)
    THEN << [type |-> "text_delta", text |-> ValueGet(v, <<"text">>).value[2]] >>
    ELSE IF TagOf(v) = <<"input_json_delta">> /\ HasString(v, <<"partial_json">>)
    THEN << [type |-> "input_json_delta",
             partial_json |-> ValueGet(v, <<"partial_json">>).value[2]] >>
    ELSE <<>>

\* the message of an `error` payload
ErrorMessageOf(v) ==
    LET e == ValueGet(v, <<"error">>)
        m == IF e.some THEN ValueGet(e.value, <<"message">>)
             ELSE [some |-> FALSE, value |-> JNull]
    IN IF m.some /\ IsString(m.value) THEN m.value[2] ELSE <<"Unknown error">>

\* the items one parsed payload yields: the match on its "type"
EventOf(v) ==
    IF ~HasString(v, <<"type">>) THEN <<>>
    ELSE LET ty == TagOf(v) IN
    CASE ty = <<"message_start">> -> << OkItem(MessageStart) >>
      [] ty = <<"content_block_start">> ->
            IF ValueGet(v, <<"content_block">>).some
            THEN LET b == ContentBlockFromValue(
                              ValueGet(v, <<"content_block">>).value) IN
                 << OkItem([type |-> "ContentBlockStart", index |-> IndexOf(v),
                            content_block |->
                                IF b = <<>> THEN [type |-> "text", text |-> <<>>]
                                ELSE b[1]]) >>
            ELSE <<>>
      [] ty = <<"content_block_delta">> ->
            LET d == DeltaFromValue(
                        IF ValueGet(v, <<"delta">>).some
                        THEN ValueGet(v, <<"delta">>).value ELSE JNull) IN
            << OkItem([type |-> "ContentBlockDelta", index |-> IndexOf(v),
                       delta |-> IF d = <<>> THEN [type |-> "text_delta",
                                                   text |-> <<>>]
                                 ELSE d[1]]) >>
      [] ty = <<"content_block_stop">> -> << OkItem(ContentBlockStop(IndexOf(v))) >>
      [] ty = <<"message_delta">> -> << OkItem(MessageDelta) >>
      [] ty = <<"message_stop">> -> << OkItem(MessageStop) >>
      [] ty = <<"error">> -> << OkItem(ErrorEvent(ApiErr(ErrorMessageOf(v)))) >>
      [] OTHER -> <<>>

SseParseError == ParseError(<<"Failed to parse SSE data">>)

\* mutation of DecodeLine: the end marker is not set apart from the payloads
DecodeLineParsingDone(line) ==
    IF line = <<>> THEN <<>>
    ELSE IF Head(line) # "data: " THEN <<>>
    ELSE LET r == FromStr(Tail(line)) IN
         IF r.ok THEN EventOf(r.value) ELSE << ErrItem(SseParseError) >>

\* the items one line yields
DecodeLine(line) ==
    IF line = <<>> THEN <<>>
    ELSE IF Head(line) # "data: " THEN <<>>
    ELSE LET data == Tail(line) IN
         IF data = <<"[DONE]">> THEN << OkItem(MessageStop) >>
         ELSE LET r == FromStr(data) IN
              IF r.ok THEN EventOf(r.value) ELSE << ErrItem(SseParseError) >>

\* buffer.find('\n'): the position of the first newline, 0 for None
FindNewline(text) ==
    IF \E k \in 1..Len(text) : text[k] = "\n"
    THEN CHOOSE k \in 1..Len(text) :
            text[k] = "\n" /\ \A j \in 1..(k - 1) : text[j] # "\n"
    ELSE 0

\* mutation of RestAfterLine: the rest of the buffer is dropped with the line
RestAfterLineDropped(text, pos) == <<>>

\* buffer[newline_pos + 1..]
RestAfterLine(text, pos) == SubSeq(text, pos + 1, Len(text))

\* `while let Some(newline_pos) = buffer.find('\n')`: the buffer left and the
\* items yielded
RECURSIVE SplitLines(_, _)
SplitLines(text, acc) ==
    LET pos == FindNewline(text) IN
    IF pos = 0 THEN [buffer |-> text, items |-> acc]
    ELSE SplitLines(RestAfterLine(text, pos),
                    acc \o DecodeLine(SubSeq(text, 1, pos - 1)))

-----------------------------------------------------------------------------
(* parse_sse_stream of the first binary (src/src/api.rs)                   *)

\* value.get("index").and_then(Value::as_u64).unwrap_or(0) as u32: the cast
\* keeps the low 32 bits
LegacyIndexOf(v) == IndexU64(v).lo

\* the items one parsed payload yields: the match on its "type"
LegacyEventOf(v) ==
    IF ~HasString(v, <<"type">>) THEN <<>>
    ELSE LET ty == TagOf(v) IN
    CASE ty = <<"message_start">> -> << OkItem(MessageStart) >>
      [] ty = <<"content_block_start">> ->
            IF ValueGet(v, <<"content_block">>).some
            THEN LET b == ContentBlockFromValue(
                              ValueGet(v, <<"content_block">>).value) IN
                 << OkItem([type |-> "ContentBlockStart",
                            index |-> LegacyIndexOf(v),
                            content_block |->
                                IF b = <<>> THEN [type |-> "text", text |-> <<>>]
                                ELSE b[1]]) >>
            ELSE <<>>
      [] ty = <<"content_block_delta">> ->
            LET d == DeltaFromValue(
                        IF ValueGet(v, <<"delta">>).some
                        THEN ValueGet(v, <<"delta">>).value ELSE JNull) IN
            << OkItem([type |-> "ContentBlockDelta", index |-> LegacyIndexOf(v),
                       delta |-> IF d = <<>> THEN [type |-> "text_delta",
                                                   text |-> <<>>]
                                 ELSE d[1]]) >>
      [] ty = <<"content_block_stop">> ->
            << OkItem(ContentBlockStop(LegacyIndexOf(v))) >>
      [] ty = <<"message_delta">> -> << OkItem(MessageDelta) >>
      [] ty = <<"message_stop">> -> << OkItem(MessageStop) >>
      [] ty = <<"error">> -> << OkItem(ErrorEvent(ApiErr(ErrorMessageOf(v)))) >>
      [] OTHER -> <<>>

\* the items one line yields
LegacyDecodeLine(line) ==
    IF line = <<>> THEN <<>>
    ELSE IF Head(line) # "data: " THEN <<>>
    ELSE LET data == Tail(line) IN
         IF data = <<"[DONE]">> THEN << OkItem(MessageStop) >>
         ELSE LET r == FromStr(data) IN
              IF r.ok THEN LegacyEventOf(r.value)
              ELSE << ErrItem(SseParseError) >>

-----------------------------------------------------------------------------
(* The decoder on its own: any sequence of chunks and read errors          *)

DataLine(payload) == <<"data: ">> \o payload \o <<"\n">>

\* data: {"type":"message_stop"}
StopLine == DataLine(<<"{", "T", ":", "ms", "}">>)
\* data: {not json}
BadLine == DataLine(<<"{", "junk", "}">>)
\* data: [DONE]
DoneLine == DataLine(<<"[DONE]">>)
\* data: {"type":"content_block_stop","index":1}
BlockStopLine == DataLine(<<"{", "T", ":", "cs", ",", "I", ":", "1", "}">>)
\* data: {"type":"content_block_start","index":0,"content_block":
\*        {"type":"tool_use","id":"A","name":"read","input":""}}
ToolStartLine ==
    DataLine(<<"{", "T", ":", "cb", ",", "I", ":", "0", ",", "CB", ":",
               "{", "T", ":", "tu", ",", "ID", ":", "A", ",", "NM", ":", "rd",
               ",", "IN", ":", "e", "}", "}">>)
\* data: {"type":"content_block_delta","index":0,"delta":
\*        {"type":"input_json_delta","partial_json":"{}"}}
JsonDeltaLine ==
    DataLine(<<"{", "T", ":", "cd", ",", "I", ":", "0", ",", "DL", ":",
               "{", "T", ":", "jd", ",", "PJ", ":", "ob", "}", "}">>)
\* data: {"type":"error","error":{"message":"overloaded"}}
ErrorLine ==
    DataLine(<<"{", "T", ":", "er", ",", "er", ":", "{", "MG", ":", "ov", "}",
               "}">>)
\* data: {"type":"ping"}
PingLine == DataLine(<<"{", "T", ":", "pg", "}">>)
\* event: message_stop
EventLine == <<"event: message_stop", "\n">>

\* the chunks the byte stream may deliver: whole frames, a malformed line
\* with a well-formed one behind it, and a frame cut in two
Chunks ==
    { StopLine \o <<"\n">>, BadLine \o StopLine, BadLine, DoneLine,
      BlockStopLine, ToolStartLine, JsonDeltaLine, ErrorLine, PingLine,
      EventLine, <<"data: ", "{", "T">>, <<":", "ms", "}", "\n">> }

\* the start of parse_sse_stream's generator
DecoderStart ==
    /\ buffer = <<>>
    /\ out = <<>>
    /\ ended = FALSE
    /\ dinput = <<>>
    /\ nchunks = 0

DecoderInit ==
    CollectorNew /\ DriverIdle /\ DecoderStart /\ SessionIdle /\ ModelsIdle

\* mutation of DecoderChunk: each chunk is split in lines on its own, what
\* an earlier chunk left in the buffer is not put in front of it
DecoderChunkUnbuffered ==
    /\ ~ended
    /\ nchunks < MaxChunks
    /\ \E chunk \in Chunks :
        LET r == SplitLines(chunk, <<>>) IN
        /\ buffer' = r.buffer
        /\ out' = out \o r.items
        /\ dinput' = dinput \o chunk
    /\ nchunks' = nchunks + 1
    /\ UNCHANGED <<ended, collectorVars, driverVars,
                   sessionVars, modelsVars>>

\* stream.next() yields Ok(bytes), valid UTF-8: push, then split in lines
DecoderChunk ==
    /\ ~ended
    /\ nchunks < MaxChunks
    /\ \E chunk \in Chunks :
        LET r == SplitLines(PushStr(buffer, chunk), <<>>) IN
        /\ buffer' = r.buffer
        /\ out' = out \o r.items
        /\ dinput' = dinput \o chunk
    /\ nchunks' = nchunks + 1
    /\ UNCHANGED <<ended, collectorVars, driverVars,
                   sessionVars, modelsVars>>

\* stream.next() yields Err(e): yield StreamError, continue
DecoderReadError ==
    /\ ~ended
    /\ nchunks < MaxChunks
    /\ out' = Append(out, ErrItem(StreamError))
    /\ nchunks' = nchunks + 1
    /\ UNCHANGED <<buffer, ended, dinput, collectorVars, driverVars,
                   sessionVars, modelsVars>>

\* mutation of DecoderInvalidUtf8: the line buffer is emptied with the chunk
DecoderInvalidUtf8ClearingBuffer ==
    /\ ~ended
    /\ nchunks < MaxChunks
    /\ out' = Append(out, ErrItem(ParseError(<<"Invalid UTF-8">>)))
    /\ buffer' = <<>>
    /\ nchunks' = nchunks + 1
    /\ UNCHANGED <<ended, dinput, collectorVars, driverVars,
                   sessionVars, modelsVars>>

\* stream.next() yields bytes that are not UTF-8: yield ParseError, continue
DecoderInvalidUtf8 ==
    /\ ~ended
    /\ nchunks < MaxChunks
    /\ out' = Append(out, ErrItem(ParseError(<<"Invalid UTF-8">>)))
    /\ nchunks' = nchunks + 1
    /\ UNCHANGED <<buffer, ended, dinput, collectorVars, driverVars,
                   sessionVars, modelsVars>>

\* stream.next() yields None: the generator ends, the buffer is dropped
DecoderEnd ==
    /\ ~ended
    /\ ended' = TRUE
    /\ buffer' = <<>>
    /\ UNCHANGED <<out, dinput, nchunks, collectorVars, driverVars,
                   sessionVars, modelsVars>>

DecoderNext ==
    \/ DecoderChunk
    \/ DecoderReadError
    \/ DecoderInvalidUtf8
    \/ DecoderEnd

SpecDecoder == DecoderInit /\ [][DecoderNext]_vars

-----------------------------------------------------------------------------
(* The decoding of one indexed frame, by either copy of parse_sse_stream   *)

\* what a frame may hold as its index: numbers, a string, null
IndexLits == {"0", "1", "2", "-1", "1.5", "4294967296", "4294967297", "s", "n"}

\* the payloads of the indexed frames, the member "index" left out:
\* content_block_stop, content_block_start of a tool_use block,
\* content_block_delta with an input_json_delta and with a text_delta
FrameBodies ==
    { <<"T", ":", "cs">>,
      <<"T", ":", "cb", ",", "CB", ":", "{", "T", ":", "tu", ",", "ID", ":",
        "A", ",", "NM", ":", "rd", ",", "IN", ":", "e", "}">>,
      <<"T", ":", "cd", ",", "DL", ":", "{", "T", ":", "jd", ",", "PJ", ":",
        "ob", "}">>,
      <<"T", ":", "cd", ",", "DL", ":", "{", "T", ":", "td", ",", "tx", ":",
        "t", "}">> }

\* the lines `data: {...}` of the indexed frames, with and without an index
IndexFrames ==
    { <<"data: ", "{">> \o body \o <<"}">> : body \in FrameBodies }
    \cup { <<"data: ", "{">> \o body \o <<",", "I", ":", lit, "}">> :
                body \in FrameBodies, lit \in IndexLits }

IndexInit ==
    /\ CollectorNew /\ DriverIdle /\ SessionIdle /\ ModelsIdle
    /\ buffer = <<>>
    /\ out = <<>>
    /\ ended = FALSE
    /\ nchunks = 0
    /\ dinput \in IndexFrames

\* the line is decoded by parse_sse_stream of the core crate
IndexDecode ==
    /\ pc = "idle"
    /\ pc' = "Decoded"
    /\ out' = DecodeLine(dinput)
    /\ nchunks' = 1
    /\ UNCHANGED <<buffer, ended, dinput, collectorVars, modelsVars,
                   sessionVars, messages, sent, current_text, tool_calls,
                   result, requests, nitems, driverHistory>>

\* the line is decoded by parse_sse_stream of the first binary
LegacyIndexDecode ==
    /\ pc = "idle"
    /\ pc' = "LegacyDecoded"
    /\ out' = LegacyDecodeLine(dinput)
    /\ nchunks' = 1
    /\ UNCHANGED <<buffer, ended, dinput, collectorVars, modelsVars,
                   sessionVars, messages, sent, current_text, tool_calls,
                   result, requests, nitems, driverHistory>>

IndexNext ==
    \/ IndexDecode
    \/ LegacyIndexDecode

SpecIndex == IndexInit /\ [][IndexNext]_vars

-----------------------------------------------------------------------------
(* Claims about the decoder                                                *)

\* the positions of the newlines of a text, and its complete lines in order
NewlinesOf(text) == { k \in 1..Len(text) : text[k] = "\n" }

NthNewline(text, j) ==
    IF j = 0 THEN 0
    ELSE CHOOSE k \in NewlinesOf(text) :
            Cardinality({ m \in NewlinesOf(text) : m <= k }) = j

CompleteLines(text) ==
    [ j \in 1..Cardinality(NewlinesOf(text)) |->
        SubSeq(text, NthNewline(text, j - 1) + 1, NthNewline(text, j) - 1) ]

RECURSIVE Flatten(_)
Flatten(seqs) ==
    IF seqs = <<>> THEN <<>> ELSE Head(seqs) \o Flatten(Tail(seqs))

\* what the decoder yields for one line received alone, from an empty buffer
Alone(line) == SplitLines(line \o <<"\n">>, <<>>).items

\* a line `data: <text that is not JSON>`
IsNonJsonData(line) ==
    /\ line # <<>>
    /\ Head(line) = "data: "
    /\ ~FromStr(Tail(line)).ok

\* the same, the end marker `data: [DONE]` set apart
IsMalformedData(line) == IsNonJsonData(line) /\ Tail(line) # <<"[DONE]">>

\* the items the lines yielded: all but the items for failed reads
LineItems ==
    SelectSeq(out, LAMBDA it : it.ok \/ it.val = SseParseError)

\* C9 as stated: every line `data: <text that is not JSON>` yields exactly
\* one ParseError item and nothing else, and every other line yields what
\* it yields alone, whatever came before it in this chunk or an earlier one.
C9_NonJsonLineIsParseError ==
    LET ls == CompleteLines(dinput) IN
    LineItems = Flatten([ j \in 1..Len(ls) |->
                            IF IsNonJsonData(ls[j])
                            THEN << ErrItem(SseParseError) >>
                            ELSE Alone(ls[j]) ])

\* C9 amended: every line `data: <text that is not JSON>` other than
\* `data: [DONE]` yields exactly one ParseError item and nothing else, and
\* every other line yields what it yields alone, whatever came before it
\* in this chunk or an earlier one.
C9_DecoderResilience ==
    LET ls == CompleteLines(dinput) IN
    LineItems = Flatten([ j \in 1..Len(ls) |->
                            IF IsMalformedData(ls[j])
                            THEN << ErrItem(SseParseError) >>
                            ELSE Alone(ls[j]) ])

\* C9 witness: a malformed line, then well-formed data lines in the same
\* chunk and in a later one, all decoded
C9_Witness ==
    LET ls == CompleteLines(dinput) IN
    /\ Len(ls) = 3
    /\ IsMalformedData(ls[1])
    /\ ls[2] \o <<"\n">> = StopLine
    /\ ls[3] \o <<"\n">> = ToolStartLine
    /\ out = << ErrItem(SseParseError), OkItem(MessageStop),
                OkItem(ToolUseStart(0, "A", "read", JStr(<<>>))) >>

\* C9: the end marker is not JSON and yields MessageStop
C9_WitnessDone ==
    /\ dinput = BadLine \o DoneLine
    /\ out = << ErrItem(SseParseError), OkItem(MessageStop) >>

\* the line `data: [DONE]`
IsDoneLine(line) == line = <<"data: ", "[DONE]">>

\* C36: every line `data: [DONE]` yields exactly one MessageStop item,
\* whether it is the first such line or a later one, and every line after
\* it is decoded as it is decoded alone: the marker neither ends the decoder
\* nor makes a later line yield an error item.
C36_DoneIsIdempotent ==
    LET ls == CompleteLines(dinput) IN
    LineItems = Flatten([ j \in 1..Len(ls) |->
                            IF IsDoneLine(ls[j])
                            THEN << OkItem(MessageStop) >>
                            ELSE Alone(ls[j]) ])

\* C36 witness: two end markers, then a data line, all decoded
C36_Witness ==
    /\ dinput = DoneLine \o DoneLine \o ToolStartLine
    /\ ~ended
    /\ out = << OkItem(MessageStop), OkItem(MessageStop),
                OkItem(ToolUseStart(0, "A", "read", JStr(<<>>))) >>

\* the first half and the second half of a frame cut in two
FrameHead == <<"data: ", "{", "T">>
FrameTail == <<":", "ms", "}", "\n">>

\* C37: the items the lines yield depend on the concatenation of the chunks
\* alone: they are the items the concatenation yields when it is delivered
\* as one chunk, which are the items of its complete lines, one line after
\* the other; the characters after the last newline have yielded nothing and
\* are what the buffer holds while the stream is open.
C37_ChunkBoundariesDoNotMatter ==
    LET ls == CompleteLines(dinput)
        whole == SplitLines(dinput, <<>>)
    IN /\ LineItems = whole.items
       /\ LineItems = Flatten([ j \in 1..Len(ls) |-> Alone(ls[j]) ])
       /\ ~ended => buffer = whole.buffer
       /\ ~ended => buffer = SubSeq(dinput, NthNewline(dinput, Len(ls)) + 1,
                                    Len(dinput))

\* C37 witness: a frame arrived in two chunks behind a whole frame and was
\* decoded once its newline had arrived
C37_Witness ==
    /\ nchunks = 3
    /\ dinput = ToolStartLine \o FrameHead \o FrameTail
    /\ buffer = <<>>
    /\ out = << OkItem(ToolUseStart(0, "A", "read", JStr(<<>>))),
                OkItem(MessageStop) >>

\* C37 witness: the first half of a frame has arrived and yielded nothing
C37_WitnessHeld ==
    /\ dinput = ToolStartLine \o FrameHead
    /\ buffer = FrameHead
    /\ Len(out) = 1

Utf8Error == ErrItem(ParseError(<<"Invalid UTF-8">>))

\* a step in which the byte source delivered an item that was neither a
\* chunk of valid UTF-8 nor a failed read
InvalidChunkStep ==
    /\ nchunks' = nchunks + 1
    /\ dinput' = dinput
    /\ out' # Append(out, ErrItem(StreamError))

\* C38: a chunk that is not valid UTF-8 yields exactly one ParseError item,
\* leaves the line buffer as it was and the stream open; and whatever chunks
\* were invalid, the valid ones are decoded as if they had arrived alone:
\* after every step the lines have yielded the items of the concatenation
\* of the valid chunks.
C38_InvalidUtf8IsSkipped ==
    [][ /\ InvalidChunkStep =>
            /\ out' = Append(out, Utf8Error)
            /\ buffer' = buffer
            /\ ~ended'
        /\ LineItems' = SplitLines(dinput', <<>>).items ]_vars

\* C38 witness: the first half of a frame was buffered, a chunk that is not
\* UTF-8 followed, and the second half completed the frame
C38_Witness ==
    /\ nchunks = 3
    /\ dinput = FrameHead \o FrameTail
    /\ out = << Utf8Error, OkItem(MessageStop) >>
    /\ ~ended

\* the literal a frame holds as its index ("none": the frame has no index)
IndexLitOf(line) ==
    IF \E k \in 1..Len(line) : line[k] = "I"
    THEN line[(CHOOSE k \in 1..Len(line) : line[k] = "I") + 2]
    ELSE "none"

\* the index the frame is to be decoded with: the number it holds if that is
\* an integer of 0 .. 2^32 - 1, and 0 otherwise
ExpectedIndex(line) ==
    CASE IndexLitOf(line) = "1" -> 1
      [] IndexLitOf(line) = "2" -> 2
      [] OTHER -> 0

\* the frame yielded one event, with the index it is to be decoded with
DecodedWithExpectedIndex ==
    /\ Len(out) = 1
    /\ out[1].ok
    /\ out[1].val.type \in {"ContentBlockStart", "ContentBlockDelta",
                            "ContentBlockStop"}
    /\ out[1].val.index = ExpectedIndex(dinput)

\* C39 as stated: a content_block_start, content_block_delta or
\* content_block_stop frame whose index is missing, negative, not an integer
\* or above the 32-bit unsigned range yields its event with index 0, never
\* an error item and never the index reduced modulo 2^32, in either copy of
\* the decoder.
C39_BadIndexDecodesAsZero ==
    (pc \in {"Decoded", "LegacyDecoded"}) => DecodedWithExpectedIndex

\* C39 for parse_sse_stream of the core crate alone
C39_CoreBadIndexDecodesAsZero ==
    (pc = "Decoded") => DecodedWithExpectedIndex

\* C39 for the first binary, the indexes above the 32-bit range set apart
C39_LegacyBadIndexUnlessTooLarge ==
    (pc = "LegacyDecoded" /\ IndexLitOf(dinput) # "4294967297")
        => DecodedWithExpectedIndex

\* C13 as stated: the StreamError for a failed chunk read is the last item
\* the decoder yields, whatever the byte source delivers afterwards.
C13_ReadErrorIsTerminal ==
    \A j \in 1..(Len(out) - 1) : out[j] # ErrItem(StreamError)

-----------------------------------------------------------------------------
(* Session: run_interactive, parse_input, handle_command                   *)
(*                                                                         *)
(* A line of input is a sequence of characters, one character per element. *)

Whitespace == {" ", "\n"}

\* str::trim
RECURSIVE TrimStart(_)
TrimStart(str) ==
    IF str # <<>> /\ Head(str) \in Whitespace THEN TrimStart(Tail(str))
    ELSE str

RECURSIVE TrimEnd(_)
TrimEnd(str) ==
    IF str # <<>> /\ str[Len(str)] \in Whitespace
    THEN TrimEnd(SubSeq(str, 1, Len(str) - 1))
    ELSE str

Trim(str) == TrimEnd(TrimStart(str))

\* mutation of ParseInput: an input that begins with a command is the command
ParseInputByPrefix(input) ==
    IF Len(input) >= 2 /\ SubSeq(input, 1, 2) = <<"/", "q">> THEN Quit
    ELSE IF input = <<"e", "x", "i", "t">> THEN Quit
    ELSE IF Len(input) >= 2 /\ SubSeq(input, 1, 2) = <<"/", "c">> THEN Clear
    ELSE MessageCmd(input)

\* Session::parse_input
ParseInput(input) ==
    IF input = <<"/", "q">> \/ input = <<"e", "x", "i", "t">> THEN Quit
    ELSE IF input = <<"/", "c">> THEN Clear
    ELSE MessageCmd(input)

\* App::parse_input
AppParseInput(input) ==
    IF input = <<"/", "q">> \/ input = <<"e", "x", "i", "t">> THEN Quit
    ELSE IF input = <<"/", "c">> THEN Clear
    ELSE MessageCmd(input)

\* the user message handle_command pushes (content held as one text block)
UserMessageOf(msg) == Message("user", << TextBlock(msg) >>)

\* the lines the reader of a session may return
Lines ==
    { <<"/", "q", "\n">>, <<"e", "x", "i", "t", "\n">>, <<" ", "/", "c", "\n">>,
      <<"q", "\n">>, <<" ", "\n">> }

\* Session::new, run_interactive entered
SessionStart ==
    /\ pc = "Reading"
    /\ messages = <<>>
    /\ sent = <<>>
    /\ current_text = <<>>
    /\ tool_calls = <<>>
    /\ result = ResultNone
    /\ requests = 0
    /\ nitems = 0
    /\ base = 0
    /\ rcalls = <<>>
    /\ rtext = <<>>
    /\ ropen = {}
    /\ rdone = FALSE
    /\ errPhase = 0
    /\ lastRun = NoRun

SessionInit ==
    CollectorNew /\ SessionStart /\ DecoderIdle /\ SessionIdle /\ ModelsIdle

\* mutation of HandleCommand: Clear notifies but leaves the history
HandleCommandKeepingHistory(command) ==
    CASE command.kind = "Quit" ->
            /\ pc' = "Exited"
            /\ UNCHANGED <<messages, sent, calls, current_text, tool_calls,
                           result>>
      [] command.kind = "Clear" ->
            /\ sent' = Append(sent, EvError(<<"Conversation cleared">>))
            /\ pc' = "Reading"
            /\ UNCHANGED <<messages, calls, current_text, tool_calls, result>>
      [] OTHER ->
            /\ messages' = Append(messages, UserMessageOf(command.msg))
            /\ calls' = <<>>
            /\ current_text' = <<>>
            /\ tool_calls' = <<>>
            /\ result' = ResultNone
            /\ pc' = "Requesting"
            /\ UNCHANGED sent

\* handle_command, up to the call of run_agent_loop_stream for a Message
HandleCommand(command) ==
    CASE command.kind = "Quit" ->
            /\ pc' = "Exited"
            /\ UNCHANGED <<messages, sent, calls, current_text, tool_calls,
                           result>>
      [] command.kind = "Clear" ->
            /\ messages' = <<>>
            /\ sent' = Append(sent, EvError(<<"Conversation cleared">>))
            /\ pc' = "Reading"
            /\ UNCHANGED <<calls, current_text, tool_calls, result>>
      [] OTHER ->
            /\ messages' = Append(messages, UserMessageOf(command.msg))
            /\ calls' = <<>>
            /\ current_text' = <<>>
            /\ tool_calls' = <<>>
            /\ result' = ResultNone
            /\ pc' = "Requesting"
            /\ UNCHANGED sent

\* run_interactive: read_line returns Some(line)
ReadLine ==
    /\ pc = "Reading"
    /\ ncmds < MaxCommands
    /\ \E line \in Lines :
        LET user_input == Trim(line) IN
        /\ lastInput' = line
        /\ IF user_input = <<>>
           THEN /\ lastCmd' = NoCommand
                /\ UNCHANGED <<pc, messages, sent, calls, current_text,
                               tool_calls, result>>
           ELSE /\ lastCmd' = ParseInput(user_input)
                /\ HandleCommand(ParseInput(user_input))
    /\ ncmds' = ncmds + 1
    /\ hist0' = messages
    /\ sent0' = Len(sent)
    /\ UNCHANGED <<requests, nitems, driverHistory, collectorHistory,
                   decoderVars, modelsVars>>

\* run_interactive: read_line returns None
ReadEof ==
    /\ pc = "Reading"
    /\ pc' = "Exited"
    /\ UNCHANGED <<calls, messages, sent, current_text, tool_calls, result,
                   requests, nitems, driverHistory, collectorHistory,
                   decoderVars, modelsVars, sessionVars>>

\* mutation of LoopReturned: the error of the loop is propagated with `?`
LoopReturnedPropagating ==
    /\ pc = "Returned"
    /\ sent' = IF IsErr(result)
               THEN Append(sent, EvError(<<"Error: ">> \o ErrorToString(result)))
               ELSE sent
    /\ pc' = IF IsErr(result) THEN "Exited" ELSE "Reading"
    /\ UNCHANGED <<calls, messages, current_text, tool_calls, result,
                   requests, nitems, driverHistory, collectorHistory,
                   decoderVars, modelsVars, sessionVars>>

\* handle_command after run_agent_loop_stream returned: Ok(true)
LoopReturned ==
    /\ pc = "Returned"
    /\ sent' = IF IsErr(result)
               THEN Append(sent, EvError(<<"Error: ">> \o ErrorToString(result)))
               ELSE sent
    /\ pc' = "Reading"
    /\ UNCHANGED <<calls, messages, current_text, tool_calls, result,
                   requests, nitems, driverHistory, collectorHistory,
                   decoderVars, modelsVars, sessionVars>>

SessionNext ==
    \/ ReadLine
    \/ ReadEof
    \/ LoopReturned
    \/ Request
    \/ StreamEvent
    \/ StreamMessageStop
    \/ StreamEnd
    \/ StreamErr
    \/ ExecuteTool

SpecSession == SessionInit /\ [][SessionNext]_vars

-----------------------------------------------------------------------------
(* App: run_interactive_with_input, parse_input, handle_command (app.rs)   *)

\* App::handle_command, up to the call of Session::run_agent_loop for a
\* Message: the text of the command is bound to _msg and not used
AppHandleCommand(command) ==
    CASE command.kind = "Quit" ->
            /\ pc' = "Exited"
            /\ UNCHANGED <<messages, sent, calls, current_text, tool_calls,
                           result>>
      [] command.kind = "Clear" ->
            /\ messages' = <<>>
            /\ sent' = Append(sent, EvError(<<"Conversation cleared">>))
            /\ pc' = "Reading"
            /\ UNCHANGED <<calls, current_text, tool_calls, result>>
      [] OTHER ->
            /\ calls' = <<>>
            /\ current_text' = <<>>
            /\ tool_calls' = <<>>
            /\ result' = ResultNone
            /\ pc' = "Requesting"
            /\ UNCHANGED <<messages, sent>>

\* run_interactive_with_input: input_receiver.recv() returns Some(user_input)
AppReadLine ==
    /\ pc = "Reading"
    /\ ncmds < MaxCommands
    /\ \E line \in Lines :
        LET user_input == Trim(line) IN
        /\ lastInput' = line
        /\ IF user_input = <<>>
           THEN /\ lastCmd' = NoCommand
                /\ UNCHANGED <<pc, messages, sent, calls, current_text,
                               tool_calls, result>>
           ELSE /\ lastCmd' = AppParseInput(user_input)
                /\ AppHandleCommand(AppParseInput(user_input))
    /\ ncmds' = ncmds + 1
    /\ hist0' = messages
    /\ sent0' = Len(sent)
    /\ UNCHANGED <<requests, nitems, driverHistory, collectorHistory,
                   decoderVars, modelsVars>>

\* the Display of the error of Session::run_agent_loop: the context alone
AgentLoopError == <<"Agent loop error">>

\* App::handle_command after Session::run_agent_loop returned: Ok(true)
AppLoopReturned ==
    /\ pc = "Returned"
    /\ sent' = IF IsErr(result)
               THEN Append(sent, EvError(<<"Error: ">> \o AgentLoopError))
               ELSE sent
    /\ pc' = "Reading"
    /\ UNCHANGED <<calls, messages, current_text, tool_calls, result,
                   requests, nitems, driverHistory, collectorHistory,
                   decoderVars, modelsVars, sessionVars>>

AppNext ==
    \/ AppReadLine
    \/ ReadEof
    \/ AppLoopReturned
    \/ Request
    \/ StreamEvent
    \/ StreamMessageStop
    \/ StreamEnd
    \/ StreamErr
    \/ ExecuteTool

SpecApp == SessionInit /\ [][AppNext]_vars

-----------------------------------------------------------------------------
(* parse_input on its own: every input of up to MaxInputLen characters     *)

InputChars == {"/", "q", "c", "e", "x", "i", "t", " "}

Inputs == UNION { [1..n -> InputChars] : n \in 0..MaxInputLen }

ParseInit ==
    /\ CollectorNew /\ DriverIdle /\ DecoderIdle /\ ModelsIdle
    /\ lastInput \in Inputs
    /\ lastCmd = NoCommand
    /\ hist0 = <<>>
    /\ sent0 = 0
    /\ ncmds = 0

\* run_interactive's use: trim, skip the empty input, parse_input
ParseTrimmed ==
    /\ pc = "idle"
    /\ pc' = "Parsed"
    /\ lastCmd' = IF Trim(lastInput) = <<>> THEN NoCommand
                  ELSE ParseInput(Trim(lastInput))
    /\ ncmds' = 1
    /\ UNCHANGED <<hist0, sent0, lastInput, collectorVars, decoderVars, modelsVars,
                   messages, sent, current_text, tool_calls, result, requests,
                   nitems, driverHistory>>

\* parse_input called on the input as it is
ParseRaw ==
    /\ pc = "idle"
    /\ pc' = "ParsedRaw"
    /\ lastCmd' = ParseInput(lastInput)
    /\ ncmds' = 1
    /\ UNCHANGED <<hist0, sent0, lastInput, collectorVars, decoderVars, modelsVars,
                   messages, sent, current_text, tool_calls, result, requests,
                   nitems, driverHistory>>

ParseNext == ParseTrimmed \/ ParseRaw

SpecParse == ParseInit /\ [][ParseNext]_vars

\* the input parse_input was given
Given == IF pc = "Parsed" THEN Trim(lastInput) ELSE lastInput

\* C18: parse_input maps exactly "/q" and "exit" to Quit, exactly "/c" to
\* Clear and every other non-empty input to Message with that input
\* unchanged, and App::parse_input returns the same command.
C18_ParseInput ==
    (pc \in {"Parsed", "ParsedRaw"} /\ Given # <<>>) =>
        /\ lastCmd = Quit <=> Given \in {<<"/", "q">>, <<"e", "x", "i", "t">>}
        /\ lastCmd = Clear <=> Given = <<"/", "c">>
        /\ lastCmd \notin {Quit, Clear} => lastCmd = MessageCmd(Given)
        /\ lastCmd = AppParseInput(Given)

\* C18 witness: "/c" between blanks is Clear once trimmed
C18_Witness ==
    /\ pc = "Parsed" /\ lastInput = <<" ", "/", "c", " ">> /\ lastCmd = Clear

\* C18: the same input untrimmed is a message
C18_WitnessRaw ==
    /\ pc = "ParsedRaw" /\ lastInput = <<" ", "/", "c", " ">>
    /\ lastCmd = MessageCmd(<<" ", "/", "c", " ">>)

-----------------------------------------------------------------------------
(* Claims about the session                                                *)

\* the Error events sent since the last command was read
ErrorsOfCommand ==
    Cardinality({ j \in (sent0 + 1)..Len(sent) : sent[j].ev = "Error" })

\* C12 as stated: once a Message command whose request failed with a network
\* or HTTP error has been handled, exactly one Error event was sent for it
\* and the history is what it was before the command was handled.
C12_FailedMessageKeepsHistory ==
    (pc = "Reading" /\ lastCmd.kind = "Message" /\ RequestFailed(result)) =>
        /\ ErrorsOfCommand = 1
        /\ messages = hist0

\* a step of run_interactive that read a line parsed as Clear
ClearHandled == ncmds' = ncmds + 1 /\ lastCmd' = Clear

\* C19: handling Clear empties the history whatever it held, issues no
\* request, sends exactly one event (the notification) and leaves the
\* interactive loop reading its next input.
C19_ClearEmptiesHistory ==
    [][ ClearHandled =>
          /\ messages' = <<>>
          /\ requests' = requests
          /\ sent' = Append(sent, EvError(<<"Conversation cleared">>))
          /\ pc = "Reading" /\ pc' = "Reading" ]_vars

\* C19 witness: a history of several messages was cleared
C19_Witness ==
    /\ lastCmd = Clear /\ pc = "Reading"
    /\ Len(hist0) > 1 /\ messages = <<>>
    /\ Len(sent) = sent0 + 1

\* a step of the interactive loop that read a line parsed as a Message
MessageHandled == ncmds' = ncmds + 1 /\ lastCmd'.kind = "Message"

\* C34 as stated: handling a Message command appends exactly one user message
\* carrying the entered text to the history, and does so before the first
\* request of the agent loop is issued (here: App::handle_command).
C34_UserMessagePushedBeforeRequest ==
    [][ MessageHandled =>
          /\ messages' = Append(messages, UserMessageOf(lastCmd'.msg))
          /\ requests' = requests
          /\ pc' = "Requesting" ]_vars

\* C34 on the path of Session::handle_command: the first request of a
\* Message command is issued on the history extended by its user message
C34_FirstRequestCarriesUserMessage ==
    (lastCmd.kind = "Message" /\ pc # "Reading" /\ pc # "Exited") =>
        /\ Len(messages) > Len(hist0)
        /\ IsPrefix(hist0, messages)
        /\ messages[Len(hist0) + 1] = UserMessageOf(lastCmd.msg)

\* the step that follows the return of run_agent_loop_stream
LoopLeft == pc = "Returned" /\ pc' # "Returned"

\* a step of the interactive loop that read an empty (all-whitespace) line
EmptyLineRead == ncmds' = ncmds + 1 /\ lastCmd' = NoCommand

-----------------------------------------------------------------------------
(* recommend_model (api/anthropic/models.rs)                               *)

\* ModelInfo; recommend_model reads only the id
ModelInfo(id) == [id |-> id]

\* let priority_models = match pref
PriorityModels(pref) ==
    CASE pref = "Opus" ->
            <<"claude-opus-4-6", "claude-opus-4-5", "claude-sonnet-4-5">>
      [] pref = "Sonnet" ->
            <<"claude-sonnet-4-5", "claude-opus-4-6", "claude-haiku-4-5">>
      [] pref = "Haiku" ->
            <<"claude-haiku-4-5", "claude-sonnet-4-5", "claude-opus-4-5">>

\* available_models.iter().any(|m| m.id == model_id)
AnyId(models, model_id) == \E k \in 1..Len(models) : models[k].id = model_id

\* available_models.first().map(|m| m.id.clone())
FirstId(models) == IF models = <<>> THEN None ELSE Some(models[1].id)

\* for model_id in priority_models { .. return Some(model_id) }, then the
\* fallback
RECURSIVE FirstAvailable(_, _)
FirstAvailable(priority_models, models) ==
    IF priority_models = <<>> THEN FirstId(models)
    ELSE IF AnyId(models, Head(priority_models))
         THEN Some(Head(priority_models))
         ELSE FirstAvailable(Tail(priority_models), models)

\* preference.unwrap_or(ModelPreference::Opus)
UnwrapOrOpus(pref) == IF pref = NoPreference THEN "Opus" ELSE pref

\* mutation of RecommendModel: the first available model that is in the
\* priority list, in the order of the available list
RecommendModelInListOrder(models, pref) ==
    LET priority_models == PriorityModels(UnwrapOrOpus(pref))
        listed == { k \in 1..Len(models) :
                      \E j \in 1..Len(priority_models) :
                          priority_models[j] = models[k].id }
    IN IF listed = {} THEN FirstId(models)
       ELSE Some(models[CHOOSE k \in listed : \A j \in listed : k <= j].id)

\* recommend_model
RecommendModel(models, pref) ==
    FirstAvailable(PriorityModels(UnwrapOrOpus(pref)), models)

\* ids a models list may hold: those of the priority lists and another
ModelIds ==
    { "claude-opus-4-6", "claude-opus-4-5", "claude-sonnet-4-5",
      "claude-haiku-4-5", "claude-opus-4-1" }

ModelLists ==
    UNION { [1..n -> { ModelInfo(id) : id \in ModelIds }] : n \in 0..MaxModels }

Preferences == { "Opus", "Sonnet", "Haiku", NoPreference }

ModelsInit ==
    /\ CollectorNew /\ DriverIdle /\ DecoderIdle /\ SessionIdle
    /\ available_models \in ModelLists
    /\ preference \in Preferences
    /\ recommended = NotCalled

\* recommend_model(&available_models, preference)
Recommend ==
    /\ recommended = NotCalled
    /\ recommended' = RecommendModel(available_models, preference)
    /\ UNCHANGED <<available_models, preference, collectorVars, driverVars,
                   decoderVars, sessionVars>>

ModelsNext == Recommend

SpecModels == ModelsInit /\ [][ModelsNext]_vars

-----------------------------------------------------------------------------
(* Claims about recommend_model                                            *)

\* positions of the priority list whose id is among the available models
PresentAt(priority_models) ==
    { k \in 1..Len(priority_models) :
        \E m \in 1..Len(available_models) :
            available_models[m].id = priority_models[k] }

\* what the claim has recommend_model return for preference pref
Expected(pref) ==
    LET priority_models == PriorityModels(pref)
        present == PresentAt(priority_models)
    IN IF present # {}
       THEN Some(priority_models[CHOOSE k \in present :
                                    \A j \in present : k <= j])
       ELSE IF available_models # <<>> THEN Some(available_models[1].id)
       ELSE None

\* C20: recommend_model returns the first id of the preference's priority
\* list that is among the available models, else the id of the first
\* available model; it returns None exactly when the list is empty; no
\* preference behaves as Opus.
C20_RecommendModel ==
    recommended # NotCalled =>
        /\ recommended =
              Expected(IF preference = NoPreference THEN "Opus" ELSE preference)
        /\ recommended = None <=> available_models = <<>>

\* C20 witness: with no preference, the second id of the Opus list is
\* returned though it is the last of the available models
C20_Witness ==
    /\ preference = NoPreference
    /\ available_models = << ModelInfo("claude-opus-4-1"),
                             ModelInfo("claude-sonnet-4-5"),
                             ModelInfo("claude-opus-4-5") >>
    /\ recommended = Some("claude-opus-4-5")

\* C20: no id of the priority list is available, the first model is returned
C20_WitnessFallback ==
    /\ preference = "Haiku"
    /\ available_models = << ModelInfo("claude-opus-4-1"),
                             ModelInfo("claude-opus-4-6") >>
    /\ recommended = Some("claude-opus-4-1")

=============================================================================
